---- MODULE Spec2Model ----
(***************************************************************************)
(* A model of the NIST SP 800-22 test battery of this repository: the bit  *)
(* string validator (utils.rs) and the eight engines' perform_test.        *)
(*                                                                         *)
(* A bit string is a sequence of one-character strings.  An f64 is         *)
(* modelled by the class of its value: "nan", "zero" (exactly 0.0), "pos"  *)
(* (finite, > 0), "nonneg" (finite, >= 0, where rounding decides whether   *)
(* it is 0.0), "posinf", "neg", "neginf".  A p-value is modelled by its    *)
(* class: "nan", "zero" (0.0), "one" (exactly 1.0), "unit" (some value in  *)
(* [0, 1]), "above" (greater than 1), and "series" for the Cumulative Sums *)
(* value 1 - sum_1 + sum_2, which the model does not evaluate.             *)
(***************************************************************************)
EXTENDS Integers, Sequences, FiniteSets, TLC

VARIABLES bit_string, call, outcome, pc, rk, template_file, invocation

vars == <<bit_string, call, outcome, pc, rk, template_file, invocation>>

(***************************************************************************)
(* Bounds of the model.                                                    *)
(***************************************************************************)
\* every string over Symbols up to this length is an input
MaxLen == 4
\* long inputs repeat a pattern of at most this many symbols
MaxPeriod == 2
\* matrix dimensions M, Q passed to the Binary Matrix Rank engine: 0..MaxDim
MaxDim == 3
\* rows and columns of the matrices whose rank computation is stepped
MaxRankDim == 4
\* the template engine, which scans the string once for every template, is
\* called on strings up to this length
MaxScanLen == 200

(***************************************************************************)
(* constants.rs                                                            *)
(***************************************************************************)
RECOMMENDED_SIZE == 100
RECOMMENDED_SIZE_DFT == 1000
MIN_LENGTH == 128
MID_LENGTH == 6272
MAX_LENGTH == 750000
MIN_SIZE_M == 8
MID_SIZE_M == 128
MAX_SIZE_M == 10000
MIN_SIZE_N == 16
MID_SIZE_N == 49
MAX_SIZE_N == 75
MIN_THRESHOLDS == <<1, 4>>
MID_THRESHOLDS == <<4, 9>>
MAX_THRESHOLDS == <<10, 16>>
RECOMMENDED_SIZE_MATRIX_TEST == 38912
MATRIX_ROWS_M == 32
MATRIX_COLUMNS_Q == 32
TEMPLATE_LEN == <<2, 21>>
RECOMMENDED_TEMPLATE_LEN == <<9, 10>>

(***************************************************************************)
(* Inputs.                                                                 *)
(***************************************************************************)
\* '0', '1' and one character that is neither
Symbols == {"0", "1", "a"}

Bits == {"0", "1"}

\* the string of length n that repeats pat
Repeat(pat, n) == [i \in 1..n |-> pat[((i - 1) % Len(pat)) + 1]]

SeqsUpTo(S, n) == UNION {[1..k -> S] : k \in 0..n}

\* lengths around the thresholds the engines compare the length with
LongLengths ==
    {RECOMMENDED_SIZE - 1, RECOMMENDED_SIZE, RECOMMENDED_SIZE + 1,
     MIN_LENGTH - 1, MIN_LENGTH, MIN_LENGTH + 1, 2 * RECOMMENDED_SIZE,
     MID_LENGTH - 1, MID_LENGTH}

Patterns == SeqsUpTo(Symbols, MaxPeriod) \ {<<>>}

\* 11111 0 11111 00 11111: 18 bits, 15 ones, 5 runs, so that
\* V_n * n = 2 * #ones * #zeros with #ones # #zeros
UnevenBalancedRuns == [i \in 1..18 |-> IF i \in {6, 12, 13} THEN "0" ELSE "1"]

BitStrings ==
    SeqsUpTo(Symbols, MaxLen)
        \cup {Repeat(pat, n) : pat \in Patterns, n \in LongLengths}
        \cup {UnevenBalancedRuns}

IsBinary(s) == \A i \in 1..Len(s) : s[i] \in Bits

\* what the validator accepts, stated on the string alone
IsValid(s) == Len(s) > 0 /\ IsBinary(s)

CountOf(s, c) == Cardinality({i \in 1..Len(s) : s[i] = c})

Abs(x) == IF x < 0 THEN -x ELSE x

(***************************************************************************)
(* Results.                                                                *)
(***************************************************************************)
NoOutcome == [kind |-> "None"]

\* anyhow::bail! / the ? operator: the engine returns Err
Fail(err, stages) == [kind |-> "Err", err |-> err, stages |-> stages]

\* a panic unwinds out of perform_test: no Result is returned
Panic(err, stages) == [kind |-> "Panic", err |-> err, stages |-> stages]

\* the path /tmp/template<m>: whether it exists, the lines written to the
\* file it names so far, and the invocation whose unpack created that file
NoTemplateFile == [exists |-> FALSE, lines |-> <<>>, owner |-> 0]

\* no invocation of get_templates is under way
NoInvocations == <<>>

RkIdle == [pc |-> "idle"]

(***************************************************************************)
(* utils.rs                                                                *)
(***************************************************************************)
\* evaluate_bit_string with a short string made an error
evaluate_bit_string_short_is_error(s, recommended_size) ==
    IF Len(s) = 0 \/ (\E i \in 1..Len(s) : s[i] # "0" /\ s[i] # "1")
       \/ Len(s) < recommended_size
    THEN [kind |-> "Err", err |-> "invalid_input"]
    ELSE [kind |-> "Ok", value |-> Len(s), warned |-> FALSE]

\* Err, or Ok(length) with the warning the code logs for a short string
evaluate_bit_string(s, recommended_size) ==
    IF Len(s) = 0 \/ (\E i \in 1..Len(s) : s[i] # "0" /\ s[i] # "1")
    THEN [kind |-> "Err", err |-> "invalid_input"]
    ELSE [kind |-> "Ok", value |-> Len(s), warned |-> Len(s) < recommended_size]

RecommendedSizes ==
    {0, RECOMMENDED_SIZE, RECOMMENDED_SIZE_DFT, MIN_LENGTH,
     RECOMMENDED_SIZE_MATRIX_TEST}

(***************************************************************************)
(* The library functions, by the class of their result.                    *)
(***************************************************************************)
\* the class of num / den for integers num and den >= 0 (0/0 is NaN)
ClassOfRatio(num, den) ==
    IF den = 0
    THEN (IF num = 0 THEN "nan" ELSE IF num > 0 THEN "posinf" ELSE "neginf")
    ELSE (IF num = 0 THEN "zero" ELSE IF num > 0 THEN "pos" ELSE "neg")

\* the class of a sum of terms none of which is negative
SumClass(classes) ==
    IF "nan" \in classes THEN "nan"
    ELSE IF "posinf" \in classes THEN "posinf"
    ELSE IF "pos" \in classes THEN "pos"
    ELSE IF "nonneg" \in classes THEN "nonneg"
    ELSE "zero"

\* statrs::function::erf::erfc
erfc(x) ==
    CASE x = "nan" -> "nan"
      [] x = "zero" -> "one"
      [] x \in {"pos", "nonneg"} -> "unit"
      [] x = "posinf" -> "zero"
      [] OTHER -> "above"

\* statrs::function::gamma::gamma_ur(a, x): NaN for a NaN argument, a panic
\* unless both arguments lie in (0, +inf)
gamma_ur(a, x) ==
    IF a = "nan" \/ x = "nan" THEN "nan"
    ELSE IF a = "pos" /\ x = "pos" THEN "unit"
    ELSE "panic"

\* f64::exp of -x
exp_neg(x) ==
    CASE x = "nan" -> "nan"
      [] x = "zero" -> "one"
      [] x \in {"pos", "nonneg"} -> "unit"
      [] x = "posinf" -> "zero"
      [] OTHER -> "above"

InUnitInterval(p) == p \in {"zero", "unit", "one"}

(***************************************************************************)
(* frequency_monobit.rs                                                    *)
(***************************************************************************)
\* the loop adds +1 for a '1' and -1 for any other character; the sum is taken
\* by halves, which adds the same terms
RECURSIVE partial_sum_range(_, _, _)
partial_sum_range(s, lo, hi) ==
    IF lo > hi THEN 0
    ELSE IF lo = hi THEN (IF s[lo] = "1" THEN 1 ELSE -1)
    ELSE LET mid == (lo + hi) \div 2 IN
         partial_sum_range(s, lo, mid) + partial_sum_range(s, mid + 1, hi)

\* compute_partial_sum with the -1 of the other characters left out
compute_partial_sum_counts_ones(s) == CountOf(s, "1")

compute_partial_sum(s) == partial_sum_range(s, 1, Len(s))

\* frequency_monobit_perform_test without its call of the validator
frequency_monobit_perform_test_unvalidated(s) ==
    [kind |-> "Ok",
     stages |-> <<"compute_partial_sum", "erfc">>,
     partial_sum |-> compute_partial_sum(s),
     statistic |-> Abs(compute_partial_sum(s)),
     observed |-> ClassOfRatio(Abs(compute_partial_sum(s)), Len(s)),
     p_value |-> erfc(ClassOfRatio(Abs(compute_partial_sum(s)), Len(s)))]

frequency_monobit_perform_test(s) ==
    LET v == evaluate_bit_string(s, RECOMMENDED_SIZE) IN
    IF v.kind = "Err" THEN Fail(v.err, <<"evaluate_bit_string">>)
    ELSE
        LET partial_sum == compute_partial_sum(s)
            \* observed = |S_n| / sqrt(length), length >= 1
            s_abs == Abs(partial_sum)
            observed == ClassOfRatio(s_abs, v.value)
        IN  [kind |-> "Ok",
             stages |-> <<"evaluate_bit_string", "compute_partial_sum", "erfc">>,
             partial_sum |-> partial_sum,
             statistic |-> s_abs,
             observed |-> observed,
             p_value |-> erfc(observed)]

(***************************************************************************)
(* frequency_block.rs                                                      *)
(***************************************************************************)
\* evaluate_block_size with > for >=: a block as long as the string passes
evaluate_block_size_accepts_whole(length, block_size) ==
    IF block_size > length \/ block_size <= (length \div RECOMMENDED_SIZE)
    THEN [kind |-> "Err", err |-> "block_size"]
    ELSE LET number_of_blocks == length \div block_size IN
         IF number_of_blocks >= RECOMMENDED_SIZE
         THEN [kind |-> "Err", err |-> "number_of_blocks"]
         ELSE [kind |-> "Ok", value |-> number_of_blocks]

\* evaluate_block_size with the partial block at the end counted as a block
evaluate_block_size_counts_partial(length, block_size) ==
    IF block_size >= length \/ block_size <= (length \div RECOMMENDED_SIZE)
    THEN [kind |-> "Err", err |-> "block_size"]
    ELSE LET number_of_blocks == length \div block_size + 1 IN
         IF number_of_blocks >= RECOMMENDED_SIZE
         THEN [kind |-> "Err", err |-> "number_of_blocks"]
         ELSE [kind |-> "Ok", value |-> number_of_blocks]

evaluate_block_size(length, block_size) ==
    IF block_size >= length \/ block_size <= (length \div RECOMMENDED_SIZE)
    THEN [kind |-> "Err", err |-> "block_size"]
    ELSE LET number_of_blocks == length \div block_size IN
         IF number_of_blocks >= RECOMMENDED_SIZE
         THEN [kind |-> "Err", err |-> "number_of_blocks"]
         ELSE [kind |-> "Ok", value |-> number_of_blocks]

\* the characters lo..hi of s that are '1'
OnesIn(s, lo, hi) == Cardinality({i \in lo..hi : s[i] = "1"})

\* pi_i = #ones / block_size of each block, kept as the count of ones; a
\* slice that ends past the string panics
compute_pi_i(s, number_of_blocks, block_size) ==
    IF number_of_blocks * block_size > Len(s) THEN [kind |-> "Panic"]
    ELSE [kind |-> "Ok",
          value |-> [b \in 1..number_of_blocks |->
                       OnesIn(s, (b - 1) * block_size + 1, b * block_size)]]

RECURSIVE SumSeq(_, _, _)
SumSeq(f, lo, hi) ==
    IF lo > hi THEN 0
    ELSE IF lo = hi THEN f[lo]
    ELSE LET mid == (lo + hi) \div 2 IN SumSeq(f, lo, mid) + SumSeq(f, mid + 1, hi)

\* chi_square = 4 * M * sum (pi_i - 1/2)^2 = sum (2 * ones_i - M)^2 / M,
\* as the integers num and den of that fraction
compute_chi_square(block_size, pi_i) ==
    LET sq == [b \in 1..Len(pi_i) |->
                 (2 * pi_i[b] - block_size) * (2 * pi_i[b] - block_size)]
    IN  [num |-> SumSeq(sq, 1, Len(pi_i)), den |-> block_size]

\* frequency_block_perform_test without the special case of chi_square = 0
frequency_block_perform_test_always_gamma(s, block_size) ==
    LET v == evaluate_bit_string(s, RECOMMENDED_SIZE) IN
    IF v.kind = "Err" THEN Fail(v.err, <<"evaluate_bit_string">>)
    ELSE
    LET nb == evaluate_block_size(v.value, block_size) IN
    IF nb.kind = "Err"
    THEN Fail(nb.err, <<"evaluate_bit_string", "evaluate_block_size">>)
    ELSE
    LET pi_i == compute_pi_i(s, nb.value, block_size).value
        chi_square == compute_chi_square(block_size, pi_i)
        p_value == gamma_ur(ClassOfRatio(nb.value, 2),
                            ClassOfRatio(chi_square.num, chi_square.den))
        stages == <<"evaluate_bit_string", "evaluate_block_size",
                    "compute_pi_i", "compute_chi_square", "gamma_ur">>
    IN  IF p_value = "panic" THEN Panic("gamma_ur", stages)
        ELSE [kind |-> "Ok", stages |-> stages,
              number_of_blocks |-> nb.value, pi_i |-> pi_i,
              chi_square |-> chi_square, p_value |-> p_value]

frequency_block_perform_test(s, block_size) ==
    LET v == evaluate_bit_string(s, RECOMMENDED_SIZE) IN
    IF v.kind = "Err" THEN Fail(v.err, <<"evaluate_bit_string">>)
    ELSE
    LET nb == evaluate_block_size(v.value, block_size) IN
    IF nb.kind = "Err"
    THEN Fail(nb.err, <<"evaluate_bit_string", "evaluate_block_size">>)
    ELSE
    LET pi == compute_pi_i(s, nb.value, block_size) IN
    IF pi.kind = "Panic"
    THEN Panic("slice", <<"evaluate_bit_string", "evaluate_block_size",
                          "compute_pi_i">>)
    ELSE
    LET pi_i == pi.value
        chi_square == compute_chi_square(block_size, pi_i)
        chi_class == ClassOfRatio(chi_square.num, chi_square.den)
        p_value == IF chi_class = "zero" THEN "one"
                   ELSE gamma_ur(ClassOfRatio(nb.value, 2), chi_class)
        stages == <<"evaluate_bit_string", "evaluate_block_size",
                    "compute_pi_i", "compute_chi_square">>
    IN  IF p_value = "panic" THEN Panic("gamma_ur", Append(stages, "gamma_ur"))
        ELSE [kind |-> "Ok",
              stages |-> IF chi_class = "zero" THEN stages
                         ELSE Append(stages, "gamma_ur"),
              number_of_blocks |-> nb.value,
              pi_i |-> pi_i,
              chi_square |-> chi_square,
              p_value |-> p_value]

\* the block sizes tried on a string of length n
BlockSizes(n) ==
    (0..(MaxLen + 1))
        \cup {n \div RECOMMENDED_SIZE, n \div RECOMMENDED_SIZE + 1,
              n \div 2, n - 1, n, n + 1}

(***************************************************************************)
(* runs.rs                                                                 *)
(***************************************************************************)
\* pre_test_proportion = #ones / length, kept as the count of ones
compute_pre_test_proportion(s, length) == OnesIn(s, 1, Len(s))

IsPowerOfTwo(k) == \E e \in 0..30 : 2 ^ e = k

\* requirement >= tau, with tau = 2 / sqrt(length) and requirement =
\* |ones / length - 1/2|: in integers (2 * ones - length)^2 >= 16 * length.
\* When the two sides are equal, length = k * k and both are 2 / k: the f64
\* values are exact when k is a power of two, and rounding (tie_rejects)
\* decides the comparison otherwise.
\* evaluate_requirement without the .abs(): only a surplus of ones rejects
evaluate_requirement_one_sided(length, ones, tie_rejects) ==
    LET d == (2 * ones - length) * (2 * ones - length)
    IN  IF 2 * ones > length /\ d >= 16 * length
        THEN [kind |-> "Err", err |-> "not_applicable"]
        ELSE [kind |-> "Ok"]

\* evaluate_requirement with > for >=: a deviation equal to tau passes
evaluate_requirement_strict(length, ones, tie_rejects) ==
    LET d == (2 * ones - length) * (2 * ones - length)
    IN  IF d > 16 * length
        THEN [kind |-> "Err", err |-> "not_applicable"]
        ELSE [kind |-> "Ok"]

evaluate_requirement(length, ones, tie_rejects) ==
    LET d == (2 * ones - length) * (2 * ones - length)
        exact == \E k \in 1..length : k * k = length /\ IsPowerOfTwo(k)
    IN  IF d > 16 * length \/ (d = 16 * length /\ (exact \/ tie_rejects))
        THEN [kind |-> "Err", err |-> "not_applicable"]
        ELSE [kind |-> "Ok"]

\* the lengths k * k evaluate_requirement is called with, and for each the
\* numbers of ones around the two where |ones / length - 1/2| is 2 / k
RequirementLengths == {16, 64, 100, 256}
RequirementOnes(length) ==
    LET k == CHOOSE x \in 1..length : x * x = length
        lo == (length - 4 * k) \div 2
        hi == (length + 4 * k) \div 2
    IN  {lo - 1, lo, lo + 1, hi - 1, hi, hi + 1} \cap (0..length)

\* the positions lo..hi whose bit differs from the next one
RECURSIVE changes_range(_, _, _)
changes_range(s, lo, hi) ==
    IF lo > hi THEN 0
    ELSE IF lo = hi THEN (IF s[lo] # s[lo + 1] THEN 1 ELSE 0)
    ELSE LET mid == (lo + hi) \div 2 IN
         changes_range(s, lo, mid) + changes_range(s, mid + 1, hi)

\* compute_v_n_observed started at 0: the changes only
compute_v_n_observed_changes_only(s) == changes_range(s, 1, Len(s) - 1)

compute_v_n_observed(s) == 1 + changes_range(s, 1, Len(s) - 1)

\* |V_n - 2 n pi (1 - pi)| / (2 sqrt(2 n) pi (1 - pi)), by its class; a zero
\* numerator is exactly 0.0 when pi = 1/2
runs_compute_fraction(ones, v_n_observed, length) ==
    LET zeros == length - ones
        num == Abs(v_n_observed * length - 2 * ones * zeros)
    IN  IF ones * zeros = 0 THEN ClassOfRatio(v_n_observed, 0)
        ELSE IF num = 0 THEN (IF 2 * ones = length THEN "zero" ELSE "nonneg")
        ELSE "pos"

runs_perform_test(s, tie_rejects) ==
    LET v == evaluate_bit_string(s, RECOMMENDED_SIZE) IN
    IF v.kind = "Err" THEN Fail(v.err, <<"evaluate_bit_string">>)
    ELSE
    LET ones == compute_pre_test_proportion(s, v.value)
        req == evaluate_requirement(v.value, ones, tie_rejects)
    IN
    IF req.kind = "Err"
    THEN Fail(req.err, <<"evaluate_bit_string", "compute_pre_test_proportion",
                         "evaluate_requirement">>)
    ELSE
    LET v_n_observed == compute_v_n_observed(s)
        fraction == runs_compute_fraction(ones, v_n_observed, v.value)
    IN  [kind |-> "Ok",
         stages |-> <<"evaluate_bit_string", "compute_pre_test_proportion",
                      "evaluate_requirement", "compute_v_n_observed",
                      "compute_fraction", "erfc">>,
         ones |-> ones,
         v_n_observed |-> v_n_observed,
         fraction |-> fraction,
         p_value |-> erfc(fraction)]

(***************************************************************************)
(* longest_run.rs                                                          *)
(***************************************************************************)
\* the pi tables of constants.rs: each value as <<hi, lo>>, its first five
\* and its next five decimals (0.21484375 is <<21484, 37500>>)
MIN_PI_VALUES == <<  <<21484, 37500>>, <<36718, 75000>>, <<23046, 87500>>,
                     <<18750, 0>> >>

MID_PI_VALUES == <<  <<11740, 35788>>, <<24295, 59590>>, <<24936, 34830>>,
                     <<17517, 70600>>, <<10270, 10710>>, <<11239, 88470>> >>

MAX_PI_VALUES == <<  <<8820, 0>>, <<20920, 0>>, <<24830, 0>>, <<19330, 0>>,
                     <<12080, 0>>, <<6750, 0>>, <<7270, 0>> >>

LongestRunConfig(block_size_m, number_of_blocks, thresholds, pi_values) ==
    [block_size_m |-> block_size_m, number_of_blocks |-> number_of_blocks,
     thresholds |-> thresholds, pi_values |-> pi_values]

\* get_longest_run_config with <= for <: 128 bits are rejected
get_longest_run_config_excludes_min(length) ==
    IF length <= MIN_LENGTH THEN [kind |-> "Err", err |-> "min_length"]
    ELSE IF length < MID_LENGTH
    THEN [kind |-> "Ok",
          value |-> LongestRunConfig(MIN_SIZE_M, MIN_SIZE_N, MIN_THRESHOLDS,
                                     MIN_PI_VALUES)]
    ELSE IF length < MAX_LENGTH
    THEN [kind |-> "Ok",
          value |-> LongestRunConfig(MID_SIZE_M, MID_SIZE_N, MID_THRESHOLDS,
                                     MID_PI_VALUES)]
    ELSE [kind |-> "Ok",
          value |-> LongestRunConfig(MAX_SIZE_M, MAX_SIZE_N, MAX_THRESHOLDS,
                                     MAX_PI_VALUES)]

\* get_longest_run_config with the boundary 6272 left in the lower regime
get_longest_run_config_mid_in_lower(length) ==
    IF length < MIN_LENGTH THEN [kind |-> "Err", err |-> "min_length"]
    ELSE IF length <= MID_LENGTH
    THEN [kind |-> "Ok",
          value |-> LongestRunConfig(MIN_SIZE_M, MIN_SIZE_N, MIN_THRESHOLDS,
                                     MIN_PI_VALUES)]
    ELSE IF length < MAX_LENGTH
    THEN [kind |-> "Ok",
          value |-> LongestRunConfig(MID_SIZE_M, MID_SIZE_N, MID_THRESHOLDS,
                                     MID_PI_VALUES)]
    ELSE [kind |-> "Ok",
          value |-> LongestRunConfig(MAX_SIZE_M, MAX_SIZE_N, MAX_THRESHOLDS,
                                     MAX_PI_VALUES)]

get_longest_run_config(length) ==
    IF length < MIN_LENGTH THEN [kind |-> "Err", err |-> "min_length"]
    ELSE IF length >= MIN_LENGTH /\ length < MID_LENGTH
    THEN [kind |-> "Ok",
          value |-> LongestRunConfig(MIN_SIZE_M, MIN_SIZE_N, MIN_THRESHOLDS,
                                     MIN_PI_VALUES)]
    ELSE IF length >= MID_LENGTH /\ length < MAX_LENGTH
    THEN [kind |-> "Ok",
          value |-> LongestRunConfig(MID_SIZE_M, MID_SIZE_N, MID_THRESHOLDS,
                                     MID_PI_VALUES)]
    ELSE [kind |-> "Ok",
          value |-> LongestRunConfig(MAX_SIZE_M, MAX_SIZE_N, MAX_THRESHOLDS,
                                     MAX_PI_VALUES)]

Max(a, b) == IF a >= b THEN a ELSE b

Min(a, b) == IF a <= b THEN a ELSE b

\* the longest run of '1' in s[lo..hi], with the runs at its two ends: the
\* loop's max_count, found by halves
RECURSIVE ones_runs(_, _, _)
ones_runs(s, lo, hi) ==
    IF lo > hi THEN [len |-> 0, pre |-> 0, suf |-> 0, max_count |-> 0]
    ELSE IF lo = hi
    THEN (IF s[lo] = "1" THEN [len |-> 1, pre |-> 1, suf |-> 1, max_count |-> 1]
          ELSE [len |-> 1, pre |-> 0, suf |-> 0, max_count |-> 0])
    ELSE LET mid == (lo + hi) \div 2
             a == ones_runs(s, lo, mid)
             b == ones_runs(s, mid + 1, hi)
         IN  [len |-> a.len + b.len,
              pre |-> IF a.pre = a.len THEN a.len + b.pre ELSE a.pre,
              suf |-> IF b.suf = b.len THEN b.len + a.suf ELSE b.suf,
              max_count |-> Max(Max(a.max_count, b.max_count), a.suf + b.pre)]

\* of the block s[lo..hi]
count_max_consecutive_ones(s, lo, hi) == ones_runs(s, lo, hi).max_count

\* the BTreeMap run_counts, as the function from each key to its count
RunCounts(runs) ==
    [k \in {runs[b] : b \in DOMAIN runs} |->
        Cardinality({b \in DOMAIN runs : runs[b] = k})]

\* calculate_vi_values without its second loop: only the keys that occur
calculate_vi_values_without_fill(run_counts, thresholds) ==
    LET Target(k) == IF k <= thresholds[1] THEN thresholds[1]
                     ELSE IF k >= thresholds[2] THEN thresholds[2]
                     ELSE k
        keys == {Target(k) : k \in DOMAIN run_counts}
        src(t) == {k \in DOMAIN run_counts : Target(k) = t}
        RECURSIVE total(_)
        total(ks) == IF ks = {} THEN 0
                     ELSE LET k == CHOOSE x \in ks : TRUE
                          IN  run_counts[k] + total(ks \ {k})
    IN  [t \in keys |-> total(src(t))]

\* the BTreeMap vi_counts: keys at or below thresholds.0 and at or above
\* thresholds.1 are merged, and every threshold in between gets an entry
calculate_vi_values(run_counts, thresholds) ==
    LET Target(k) == IF k <= thresholds[1] THEN thresholds[1]
                     ELSE IF k >= thresholds[2] THEN thresholds[2]
                     ELSE k
        keys == {Target(k) : k \in DOMAIN run_counts}
                    \cup (thresholds[1]..thresholds[2])
        src(t) == {k \in DOMAIN run_counts : Target(k) = t}
        RECURSIVE total(_)
        total(ks) == IF ks = {} THEN 0
                     ELSE LET k == CHOOSE x \in ks : TRUE
                          IN  run_counts[k] + total(ks \ {k})
    IN  [t \in keys |-> total(src(t))]

\* the configurations of the three regimes
RegimeConfigs ==
    {get_longest_run_config(length).value :
        length \in {l \in {MIN_LENGTH, MID_LENGTH, MAX_LENGTH} :
                        get_longest_run_config(l).kind = "Ok"}}

\* the maps run_counts calculate_vi_values is called with in a regime: the
\* longest runs of number_of_blocks blocks, all the same or of two lengths,
\* among 0, the two thresholds, the one after the lower and the block size
RunCountsOf(config) ==
    LET n == config.number_of_blocks
        keys == {0, config.thresholds[1], config.thresholds[1] + 1,
                 config.thresholds[2], config.block_size_m}
    IN  {[k \in {a} |-> n] : a \in keys}
            \cup {[k \in {p[1], p[2]} |-> IF k = p[1] THEN p[3] ELSE n - p[3]] :
                    p \in {q \in keys \X keys \X {1, n - 1} : q[1] < q[2]}}

\* the keys of a BTreeMap in ascending order
RECURSIVE SortedKeys(_)
SortedKeys(ks) ==
    IF ks = {} THEN <<>>
    ELSE LET k == CHOOSE x \in ks : \A y \in ks : x <= y
         IN  <<k>> \o SortedKeys(ks \ {k})

\* (v - N * pi)^2 / (N * pi) of one bucket, by its class: N * pi > 0, and
\* the term is 0.0 when v = N * pi, which needs N * lo to be a multiple of
\* 10^5
longest_run_term(vi_value, number_of_blocks, pi_value) ==
    IF (number_of_blocks * pi_value[2]) % 100000 = 0
       /\ vi_value * 100000
            = number_of_blocks * pi_value[1]
                + (number_of_blocks * pi_value[2]) \div 100000
    THEN "zero"
    ELSE "pos"

\* the lengths get_longest_run_config is called with: around each boundary
ConfigLengths ==
    {0, MIN_LENGTH - 1, MIN_LENGTH, MIN_LENGTH + 1, MID_LENGTH - 1, MID_LENGTH,
     MID_LENGTH + 1, MAX_LENGTH - 1, MAX_LENGTH, MAX_LENGTH + 1,
     2 * MAX_LENGTH}

longest_run_perform_test(s) ==
    LET v == evaluate_bit_string(s, MIN_LENGTH) IN
    IF v.kind = "Err" THEN Fail(v.err, <<"evaluate_bit_string">>)
    ELSE
    LET c == get_longest_run_config(v.value) IN
    IF c.kind = "Err"
    THEN Fail(c.err, <<"evaluate_bit_string", "get_longest_run_config">>)
    ELSE
    LET config == c.value IN
    IF config.number_of_blocks * config.block_size_m > Len(s)
    THEN Panic("slice", <<"evaluate_bit_string", "get_longest_run_config",
                          "count_max_consecutive_ones">>)
    ELSE
    LET runs == [b \in 1..config.number_of_blocks |->
                    count_max_consecutive_ones(s,
                        (b - 1) * config.block_size_m + 1,
                        b * config.block_size_m)]
        counts == RunCounts(runs)
        vi_counts == calculate_vi_values(counts, config.thresholds)
        keys == SortedKeys(DOMAIN vi_counts)
        \* zip stops at the shorter of the two
        pairs == Min(Len(keys), Len(config.pi_values))
        chi_square == SumClass({longest_run_term(vi_counts[keys[i]],
                                                 config.number_of_blocks,
                                                 config.pi_values[i]) :
                                    i \in 1..pairs})
        p_value == gamma_ur(ClassOfRatio(Len(config.pi_values) - 1, 2),
                            chi_square)
        stages == <<"evaluate_bit_string", "get_longest_run_config",
                    "count_max_consecutive_ones", "calculate_vi_values",
                    "gamma_ur">>
    IN  IF p_value = "panic" THEN Panic("gamma_ur", stages)
        ELSE [kind |-> "Ok",
              stages |-> stages,
              config |-> config,
              runs |-> runs,
              vi_counts |-> vi_counts,
              chi_square |-> chi_square,
              p_value |-> p_value]

(***************************************************************************)
(* dft_spectral.rs                                                         *)
(***************************************************************************)
\* |d| / sqrt(2) with d = (N_1 - 0.475 * length) / sqrt(length * 0.011875),
\* by its class: the numerator is 0.0 only when N_1 = 0.475 * length, and
\* there rounding decides
dft_normalized_diff(n_1, length) ==
    IF 1000 * n_1 = 475 * length THEN "nonneg" ELSE "pos"

\* the spectrum is not computed: n_1, the number of the first length / 2
\* moduli below the height threshold, is an input in 0..length / 2
PeakCounts(length) ==
    {0, 1, (475 * length) \div 1000, length \div 2}
        \cap (0..(length \div 2))

\* LOG_ARG.log10() with LOG_ARG = 1.0 / 0.05: log10(20) = 1.30103, in
\* units of 1 / LogUnit
LogUnit == 100000
LOG_ARG_log10 == 130103

\* ln(1 / 0.05) = ln(20) = 2.99573, the logarithm of NIST SP 800-22 2.6.4,
\* in units of 1 / LogUnit
NIST_LN_OF_LOG_ARG == 299573

\* the lengths whose DFT has rational squared moduli: 2 cos(2 pi t / n) is
\* an integer for these n only
ExactDftLengths == {1, 2, 3, 4, 6}

\* 2 cos(2 pi t / n) for n in ExactDftLengths
TwiceCos(t, n) ==
    LET r == t % n IN
    CASE n = 1 -> 2
      [] n = 2 -> IF r = 0 THEN 2 ELSE -2
      [] n = 3 -> IF r = 0 THEN 2 ELSE -1
      [] n = 4 -> IF r = 0 THEN 2 ELSE IF r = 2 THEN -2 ELSE 0
      [] n = 6 -> IF r = 0 THEN 2 ELSE IF r = 3 THEN -2
                  ELSE IF r \in {1, 5} THEN 1 ELSE -1

\* the signal of apply_dft: 1.0 for '1' and -1.0 for any other character
dft_signal(s) == [j \in 1..Len(s) |-> IF s[j] = "1" THEN 1 ELSE -1]

\* twice the squared modulus of frequency bin k (from 0) of the DFT of the
\* signal: |X_k|^2 = sum over j, l of x_j x_l cos(2 pi k (j - l) / n)
twice_norm_sqr(s, k) ==
    LET n == Len(s)
        x == dft_signal(s)
        terms == [p \in 1..(n * n) |->
                    LET j == ((p - 1) \div n) + 1
                        l == ((p - 1) % n) + 1
                    IN  x[j] * x[l] * TwiceCos(k * (j - l + n), n)]
    IN  SumSeq(terms, 1, n * n)

\* the spectrum of apply_dft, each bin as twice its squared modulus
apply_dft(s, signal_len) == [b \in 1..signal_len |-> twice_norm_sqr(s, b - 1)]

\* modulus < sqrt(log_value * length), for twice the squared modulus and a
\* logarithm in units of 1 / LogUnit
below_height_threshold(twice_sqr, length, log_value) ==
    twice_sqr * LogUnit < 2 * log_value * length

\* the loop over spectrum.iter().take(length / 2)
count_n_1(spectrum, length) ==
    Cardinality({b \in 1..(length \div 2) :
                    below_height_threshold(spectrum[b], length, LOG_ARG_log10)})

\* n_1 is counted from the spectrum for the lengths of ExactDftLengths; for
\* every other length the spectrum is not computed and drawn_n_1 stands for
\* the count
dft_spectral_perform_test(s, drawn_n_1) ==
    LET v == evaluate_bit_string(s, RECOMMENDED_SIZE_DFT) IN
    IF v.kind = "Err" THEN Fail(v.err, <<"evaluate_bit_string">>)
    ELSE
    LET n_1 == IF v.value \in ExactDftLengths
               THEN count_n_1(apply_dft(s, v.value), v.value)
               ELSE drawn_n_1
    IN  [kind |-> "Ok",
         stages |-> <<"evaluate_bit_string", "apply_dft", "erfc">>,
         \* height_threshold squared, as a fraction
         height_threshold_sq |-> [num |-> LOG_ARG_log10 * v.value,
                                  den |-> LogUnit],
         n_1 |-> n_1,
         normalized_diff |-> dft_normalized_diff(n_1, v.value),
         p_value |-> erfc(dft_normalized_diff(n_1, v.value))]

(***************************************************************************)
(* cumulative_sums.rs                                                      *)
(***************************************************************************)
Modes == {"Forward", "Backward"}

\* a traversal that keeps the order in backward mode
Reverse_identity(s) == s

\* bit_string.chars().rev()
Reverse(s) == [i \in 1..Len(s) |-> s[Len(s) + 1 - i]]

\* one iteration that adds |current_sum| to max_sum_z instead of taking the
\* maximum
cusum_step_accumulates(acc, bit) ==
    LET current_sum == IF bit = "1" THEN acc.current_sum + 1
                       ELSE acc.current_sum - 1
    IN  [current_sum |-> current_sum,
         max_sum_z |-> acc.max_sum_z + Abs(current_sum)]

\* one iteration of the loop over the bits
cusum_step(acc, bit) ==
    LET current_sum == IF bit = "1" THEN acc.current_sum + 1
                       ELSE acc.current_sum - 1
    IN  [current_sum |-> current_sum,
         max_sum_z |-> Max(acc.max_sum_z, Abs(current_sum))]

\* the loop over s[lo..hi] started with acc; max_sum_z is never negative, and
\* the first test only has acc evaluated before the loop goes on
RECURSIVE cusum_loop(_, _, _, _)
cusum_loop(s, lo, hi, acc) ==
    IF acc.max_sum_z < 0 \/ lo > hi THEN acc
    ELSE IF lo = hi THEN cusum_step(acc, s[lo])
    ELSE LET mid == (lo + hi) \div 2 IN
         cusum_loop(s, mid + 1, hi, cusum_loop(s, lo, mid, acc))

\* the cast taken as a floor
TruncDiv_floor(a, b) == a \div b

\* the cast `as i64` of a quotient a / b, b > 0: truncation toward zero
TruncDiv(a, b) == IF a >= 0 THEN a \div b ELSE -((-a) \div b)

\* the three limits of perform_test for a length and a maximum excursion z
cusum_limits(length, z) ==
    [upper_limit |-> TruncDiv(length - z, 4 * z),
     lower_limit_1 |-> TruncDiv(z - length, 4 * z),
     lower_limit_2 |-> TruncDiv(- length - 3 * z, 4 * z)]

\* a perform_test that walks the string in its own order in both modes
cumulative_sums_perform_test_ignores_mode(s, mode) ==
    LET v == evaluate_bit_string(s, RECOMMENDED_SIZE) IN
    IF v.kind = "Err" THEN Fail(v.err, <<"evaluate_bit_string">>)
    ELSE
    LET sums == cusum_loop(s, 1, Len(s), [current_sum |-> 0, max_sum_z |-> 0])
        z == sums.max_sum_z
        length == v.value
    IN  [kind |-> "Ok",
         stages |-> <<"evaluate_bit_string", "max_sum_z", "limits", "cdf">>,
         current_sum |-> sums.current_sum,
         max_sum_z |-> z,
         upper_limit |-> TruncDiv(length - z, 4 * z),
         lower_limit_1 |-> TruncDiv(z - length, 4 * z),
         lower_limit_2 |-> TruncDiv(- length - 3 * z, 4 * z),
         p_value |-> "series"]

cumulative_sums_perform_test(s, mode) ==
    LET v == evaluate_bit_string(s, RECOMMENDED_SIZE) IN
    IF v.kind = "Err" THEN Fail(v.err, <<"evaluate_bit_string">>)
    ELSE
    LET new_bit_string == IF mode = "Forward" THEN s ELSE Reverse(s)
        sums == cusum_loop(new_bit_string, 1, Len(new_bit_string),
                           [current_sum |-> 0, max_sum_z |-> 0])
        z == sums.max_sum_z
        length == v.value
    IN  [kind |-> "Ok",
         stages |-> <<"evaluate_bit_string", "max_sum_z", "limits", "cdf">>,
         current_sum |-> sums.current_sum,
         max_sum_z |-> z,
         \* ((length / z - 1) * 0.25) as i64
         upper_limit |-> TruncDiv(length - z, 4 * z),
         \* ((-length / z + 1) * 0.25) as i64
         lower_limit_1 |-> TruncDiv(z - length, 4 * z),
         \* ((-length / z - 3) * 0.25) as i64
         lower_limit_2 |-> TruncDiv(- length - 3 * z, 4 * z),
         p_value |-> "series"]

(***************************************************************************)
(* binary_matrix_rank.rs                                                   *)
(***************************************************************************)
\* constants.rs APPROXIMATIONS, in units of 1/10000
APPROXIMATIONS == <<2888, 5776, 1336>>

\* construct_matrices with the chunk filled column by column
construct_matrices_column_major(s, rows, columns) ==
    LET total_elements == rows * columns IN
    IF total_elements = 0 THEN [kind |-> "Panic"]
    ELSE [kind |-> "Ok",
          value |->
            [k \in 1..(Len(s) \div total_elements) |->
                [r \in 1..rows |->
                    [c \in 1..columns |->
                        IF s[(k - 1) * total_elements + (c - 1) * rows + r]
                              = "1"
                        THEN 1 ELSE 0]]]]

\* the matrices of the full chunks of rows * columns bits, each a sequence
\* of rows; chunks(0) panics
construct_matrices(s, rows, columns) ==
    LET total_elements == rows * columns IN
    IF total_elements = 0 THEN [kind |-> "Panic"]
    ELSE [kind |-> "Ok",
          value |->
            [k \in 1..(Len(s) \div total_elements) |->
                [r \in 1..rows |->
                    [c \in 1..columns |->
                        IF s[(k - 1) * total_elements + (r - 1) * columns + c]
                              = "1"
                        THEN 1 ELSE 0]]]]

\* rug::Integer division: the quotient truncated toward zero, b # 0
IntegerDiv(a, b) ==
    IF (a >= 0) = (b > 0) THEN Abs(a) \div Abs(b) ELSE -(Abs(a) \div Abs(b))

\* the pivot search for i in row + 1..nrows; rows are counted from 1 here
RECURSIVE find_max_row(_, _, _, _)
find_max_row(matrix, col, i, max_row) ==
    IF i > Len(matrix) THEN max_row
    ELSE find_max_row(matrix, col, i + 1,
                      IF Abs(matrix[i][col]) > Abs(matrix[max_row][col])
                      THEN i ELSE max_row)

swap_rows(matrix, a, b) ==
    [r \in DOMAIN matrix |->
        IF r = a THEN matrix[b] ELSE IF r = b THEN matrix[a] ELSE matrix[r]]

\* the row operations below the pivot matrix[row][col]
eliminate(matrix, row, col) ==
    [i \in DOMAIN matrix |->
        IF i <= row THEN matrix[i]
        ELSE LET factor == IntegerDiv(matrix[i][col], matrix[row][col]) IN
             [j \in DOMAIN matrix[i] |->
                IF j < col THEN matrix[i][j]
                ELSE matrix[i][j] - factor * matrix[row][j]]]

RankStart(matrix) == [matrix |-> matrix, row |-> 0, col |-> 0, rank |-> 0]

\* the condition of the while loop; row and col count from 0 as in the code
rank_loop_condition(st) ==
    /\ st.row < Len(st.matrix)
    /\ Len(st.matrix) > 0
    /\ st.col < Len(st.matrix[1])

\* one iteration with col advanced only when the column holds no pivot
rank_step_keeps_column(st) ==
    LET max_row == find_max_row(st.matrix, st.col + 1, st.row + 2, st.row + 1)
    IN  IF st.matrix[max_row][st.col + 1] = 0
        THEN [st EXCEPT !.col = st.col + 1]
        ELSE [matrix |-> eliminate(swap_rows(st.matrix, st.row + 1, max_row),
                                   st.row + 1, st.col + 1),
              row |-> st.row + 1,
              col |-> st.col,
              rank |-> st.rank + 1]

\* one iteration of the while loop
rank_step(st) ==
    LET max_row == find_max_row(st.matrix, st.col + 1, st.row + 2, st.row + 1)
    IN  IF st.matrix[max_row][st.col + 1] = 0
        THEN [st EXCEPT !.col = st.col + 1]
        ELSE [matrix |-> eliminate(swap_rows(st.matrix, st.row + 1, max_row),
                                   st.row + 1, st.col + 1),
              row |-> st.row + 1,
              col |-> st.col + 1,
              rank |-> st.rank + 1]

RECURSIVE rank_loop(_)
rank_loop(st) == IF rank_loop_condition(st) THEN rank_loop(rank_step(st)) ELSE st

compute_rank(matrix) == rank_loop(RankStart(matrix)).rank

\* (rank - constant)^2 / constant with constant = approximation * n_matrices,
\* by its class
compute_fraction(rank, n_matrices, approximation) ==
    IF n_matrices = 0 THEN ClassOfRatio(rank * rank, 0)
    ELSE IF 10000 * rank = approximation * n_matrices THEN "nonneg"
    ELSE "pos"

\* perform_test with the second class taken as rank >= M - 1, which counts
\* the matrices of full rank twice
binary_matrix_rank_perform_test_double_count(s, matrix_rows_m, matrix_columns_q) ==
    LET v == evaluate_bit_string(s, RECOMMENDED_SIZE_MATRIX_TEST) IN
    IF v.kind = "Err" THEN Fail(v.err, <<"evaluate_bit_string">>)
    ELSE
    LET m == construct_matrices(s, matrix_rows_m, matrix_columns_q) IN
    IF m.kind = "Panic"
    THEN Panic("chunk_size", <<"evaluate_bit_string", "construct_matrices">>)
    ELSE
    LET matrices == m.value
        n_matrices == v.value \div (matrix_rows_m * matrix_columns_q)
        ranks == [k \in DOMAIN matrices |-> compute_rank(matrices[k])]
        full_rank_m ==
            Cardinality({k \in DOMAIN ranks : ranks[k] = matrix_rows_m})
        full_rank_m_minus_one ==
            Cardinality({k \in DOMAIN ranks : ranks[k] >= matrix_rows_m - 1})
        remaining_ranks == n_matrices - full_rank_m - full_rank_m_minus_one
        chi_square ==
            SumClass({compute_fraction(full_rank_m, n_matrices,
                                       APPROXIMATIONS[1]),
                      compute_fraction(full_rank_m_minus_one, n_matrices,
                                       APPROXIMATIONS[2]),
                      compute_fraction(remaining_ranks, n_matrices,
                                       APPROXIMATIONS[3])})
    IN  [kind |-> "Ok",
         stages |-> <<"evaluate_bit_string", "construct_matrices",
                      "compute_rank", "compute_fraction", "exp">>,
         n_matrices |-> n_matrices,
         ranks |-> ranks,
         full_rank_m |-> full_rank_m,
         full_rank_m_minus_one |-> full_rank_m_minus_one,
         remaining_ranks |-> remaining_ranks,
         chi_square |-> chi_square,
         p_value |-> exp_neg(chi_square)]

binary_matrix_rank_perform_test(s, matrix_rows_m, matrix_columns_q) ==
    LET v == evaluate_bit_string(s, RECOMMENDED_SIZE_MATRIX_TEST) IN
    IF v.kind = "Err" THEN Fail(v.err, <<"evaluate_bit_string">>)
    ELSE
    LET m == construct_matrices(s, matrix_rows_m, matrix_columns_q) IN
    IF m.kind = "Panic"
    THEN Panic("chunk_size", <<"evaluate_bit_string", "construct_matrices">>)
    ELSE
    LET matrices == m.value
        n_matrices == v.value \div (matrix_rows_m * matrix_columns_q)
        ranks == [k \in DOMAIN matrices |-> compute_rank(matrices[k])]
        full_rank_m ==
            Cardinality({k \in DOMAIN ranks : ranks[k] = matrix_rows_m})
        full_rank_m_minus_one ==
            Cardinality({k \in DOMAIN ranks : ranks[k] = matrix_rows_m - 1})
        remaining_ranks == n_matrices - full_rank_m - full_rank_m_minus_one
        chi_square ==
            SumClass({compute_fraction(full_rank_m, n_matrices,
                                       APPROXIMATIONS[1]),
                      compute_fraction(full_rank_m_minus_one, n_matrices,
                                       APPROXIMATIONS[2]),
                      compute_fraction(remaining_ranks, n_matrices,
                                       APPROXIMATIONS[3])})
    IN  [kind |-> "Ok",
         stages |-> <<"evaluate_bit_string", "construct_matrices",
                      "compute_rank", "compute_fraction", "exp">>,
         n_matrices |-> n_matrices,
         ranks |-> ranks,
         full_rank_m |-> full_rank_m,
         full_rank_m_minus_one |-> full_rank_m_minus_one,
         remaining_ranks |-> remaining_ranks,
         chi_square |-> chi_square,
         p_value |-> exp_neg(chi_square)]

(***************************************************************************)
(* non_overlapping_template.rs                                             *)
(***************************************************************************)
\* the uniformity test with its second half left out
IsUniform_zeros_only(s) == \A i \in 1..Len(s) : s[i] = "0"

\* bit_string.chars().all(|c| c == '0') || bit_string.chars().all(|c| c == '1')
IsUniform(s) ==
    \/ \A i \in 1..Len(s) : s[i] = "0"
    \/ \A i \in 1..Len(s) : s[i] = "1"

\* evaluate_test_params with < for <= in the test of the block size
evaluate_test_params_strict_less(bit_string_length, template_len, number_of_blocks) ==
    IF ~(TEMPLATE_LEN[1] <= template_len /\ template_len <= TEMPLATE_LEN[2])
    THEN [kind |-> "Err", err |-> "template_len"]
    ELSE IF number_of_blocks > RECOMMENDED_SIZE
    THEN [kind |-> "Err", err |-> "number_of_blocks"]
    ELSE IF number_of_blocks = 0
    THEN [kind |-> "Panic", err |-> "division_by_zero"]
    ELSE IF bit_string_length \div number_of_blocks < bit_string_length \div 100
    THEN [kind |-> "Err", err |-> "block_size"]
    ELSE [kind |-> "Ok", value |-> bit_string_length \div number_of_blocks]

\* Ok(block_size), Err, or the panic of the division by number_of_blocks = 0
evaluate_test_params(bit_string_length, template_len, number_of_blocks) ==
    IF ~(TEMPLATE_LEN[1] <= template_len /\ template_len <= TEMPLATE_LEN[2])
    THEN [kind |-> "Err", err |-> "template_len"]
    ELSE IF number_of_blocks > RECOMMENDED_SIZE
    THEN [kind |-> "Err", err |-> "number_of_blocks"]
    ELSE IF number_of_blocks = 0
    THEN [kind |-> "Panic", err |-> "division_by_zero"]
    ELSE LET block_size == bit_string_length \div number_of_blocks
             recommended_size == bit_string_length \div 100
         IN  IF block_size <= recommended_size
             THEN [kind |-> "Err", err |-> "block_size"]
             ELSE [kind |-> "Ok", value |-> block_size]

\* the template of length m that starts with a bits `first` and goes on with
\* the other bit
Template(m, a, first) ==
    [i \in 1..m |-> IF i <= a THEN first ELSE IF first = "0" THEN "1" ELSE "0"]

\* the lines of the file /tmp/template<m>: the templates 0..01..1 and
\* 1..10..0, which are all the aperiodic templates for m <= 4 and some of
\* them above
Catalog(m) ==
    [k \in 1..(2 * (m - 1)) |->
        IF k <= m - 1 THEN Template(m, k, "0")
        ELSE Template(m, k - (m - 1), "1")]

\* Err when neither the file nor the archive it is unpacked from is there
get_templates(template_len, available) ==
    IF available THEN [kind |-> "Ok", value |-> Catalog(template_len)]
    ELSE [kind |-> "Err", err |-> "templates"]

\* template occurs in s at position p, within s[..hi]
MatchAt(s, p, hi, template) ==
    /\ p + Len(template) - 1 <= hi
    /\ \A j \in 1..Len(template) : s[p + j - 1] = template[j]

\* scan_step with the index moved by one bit after a match: overlapping
\* occurrences are counted
scan_step_overlapping(s, hi, template, acc, p) ==
    IF p >= acc.index /\ MatchAt(s, p, hi, template)
    THEN [index |-> p + 1, counter |-> acc.counter + 1]
    ELSE acc

\* the find loop, position by position: a match at or after index counts and
\* moves index past it
scan_step(s, hi, template, acc, p) ==
    IF p >= acc.index /\ MatchAt(s, p, hi, template)
    THEN [index |-> p + Len(template), counter |-> acc.counter + 1]
    ELSE acc

\* the positions lo..hi in ascending order; the first test only has acc
\* evaluated before the scan goes on
RECURSIVE scan_loop(_, _, _, _, _, _)
scan_loop(s, end, template, lo, hi, acc) ==
    IF acc.counter < 0 \/ lo > hi THEN acc
    ELSE IF lo = hi THEN scan_step(s, end, template, acc, lo)
    ELSE LET mid == (lo + hi) \div 2 IN
         scan_loop(s, end, template, mid + 1, hi,
                   scan_loop(s, end, template, lo, mid, acc))

\* counter of the block s[lo..hi]
count_template(s, lo, hi, template) ==
    scan_loop(s, hi, template, lo, hi, [index |-> lo, counter |-> 0]).counter

\* the templates the find loop is run with on a block of its own: every
\* non-empty bit pattern up to MaxTemplateLen bits, periodic ones included
MaxTemplateLen == 3
ScanTemplates == SeqsUpTo(Bits, MaxTemplateLen) \ {<<>>}

\* the left-to-right scan of s[pos..hi]: a match counts and moves the
\* position by the template length, a mismatch moves it by one bit
RECURSIVE ReferenceScan(_, _, _, _)
ReferenceScan(s, pos, hi, template) ==
    IF pos + Len(template) - 1 > hi THEN 0
    ELSE IF \A j \in 1..Len(template) : s[pos + j - 1] = template[j]
    THEN 1 + ReferenceScan(s, pos + Len(template), hi, template)
    ELSE ReferenceScan(s, pos + 1, hi, template)

\* block_size.wrapping_sub(template_len) + 1, the numerator of the mean over
\* 2^template_len: the sum overflows a usize when block_size is template_len
\* - 1, which panics with overflow checks and is 0 without them; below that
\* the difference has wrapped to a value near 2^64
template_mean(block_size, template_len, overflow_checks) ==
    IF block_size >= template_len
    THEN [kind |-> "exact", num |-> block_size - template_len + 1]
    ELSE IF block_size = template_len - 1
    THEN (IF overflow_checks THEN [kind |-> "Panic"]
          ELSE [kind |-> "exact", num |-> 0])
    ELSE [kind |-> "wrapped"]

\* (counter - mean)^2 / variance by its class; the variance is positive
template_term(counter, mean, template_len) ==
    IF mean.kind = "exact" /\ counter * (2 ^ template_len) = mean.num
    THEN "zero" ELSE "pos"

\* the mean of the p-values, by its class
PValuesMean(p_values) ==
    IF Len(p_values) = 0 THEN "nan"
    ELSE IF \A k \in DOMAIN p_values : p_values[k] = "one" THEN "one"
    ELSE IF \E k \in DOMAIN p_values : p_values[k] = "nan" THEN "nan"
    ELSE "unit"

non_overlapping_template_perform_test(s, template_len, number_of_blocks, available, overflow_checks) ==
    LET v == evaluate_bit_string(s, RECOMMENDED_SIZE) IN
    IF v.kind = "Err" THEN Fail(v.err, <<"evaluate_bit_string">>)
    ELSE IF IsUniform(s)
    THEN Fail("uniform", <<"evaluate_bit_string", "uniform">>)
    ELSE
    LET bs == evaluate_test_params(v.value, template_len, number_of_blocks)
        st1 == <<"evaluate_bit_string", "uniform", "evaluate_test_params">>
    IN
    IF bs.kind = "Err" THEN Fail(bs.err, st1)
    ELSE IF bs.kind = "Panic" THEN Panic(bs.err, st1)
    ELSE
    LET block_size == bs.value
        mean == template_mean(block_size, template_len, overflow_checks)
        st2 == Append(st1, "mean")
    IN
    IF mean.kind = "Panic" THEN Panic("add_overflow", st2)
    ELSE
    LET t == get_templates(template_len, available)
        st3 == Append(st2, "get_templates")
    IN
    IF t.kind = "Err" THEN Fail(t.err, st3)
    ELSE
    LET templates == t.value
        counters == [k \in DOMAIN templates |->
                        [b \in 1..number_of_blocks |->
                            count_template(s, (b - 1) * block_size + 1,
                                           b * block_size, templates[k])]]
        chi_square == [k \in DOMAIN templates |->
                        SumClass({template_term(counters[k][b], mean,
                                                template_len) :
                                    b \in 1..number_of_blocks})]
        p_values == [k \in DOMAIN templates |->
                        IF chi_square[k] = "zero" THEN "one"
                        ELSE gamma_ur(ClassOfRatio(number_of_blocks, 2),
                                      chi_square[k])]
    IN  [kind |-> "Ok",
         stages |-> Append(st3, "scan"),
         block_size |-> block_size,
         mean |-> mean,
         counters |-> counters,
         p_value |-> PValuesMean(p_values)]

\* the template lengths and the numbers of blocks tried
TemplateLens ==
    {0, TEMPLATE_LEN[1] - 1, TEMPLATE_LEN[1], TEMPLATE_LEN[1] + 1,
     TEMPLATE_LEN[2], TEMPLATE_LEN[2] + 1}

NumbersOfBlocks ==
    {0, 1, 2, 3, RECOMMENDED_SIZE - 1, RECOMMENDED_SIZE, RECOMMENDED_SIZE + 1}

(***************************************************************************)
(* The state machine: an input is drawn, one function is called on it, and *)
(* its result is kept.                                                     *)
(***************************************************************************)
Init ==
    /\ bit_string \in BitStrings
    /\ call = [fn |-> "none"]
    /\ outcome = NoOutcome
    /\ pc = "ready"
    /\ rk = RkIdle
    /\ template_file = NoTemplateFile
    /\ invocation = NoInvocations

Validate ==
    /\ pc = "ready"
    /\ \E r \in RecommendedSizes :
        /\ call' = [fn |-> "evaluate_bit_string", recommended_size |-> r]
        /\ outcome' = evaluate_bit_string(bit_string, r)
    /\ pc' = "done"
    /\ UNCHANGED <<bit_string, rk, template_file, invocation>>

FrequencyMonobit ==
    /\ pc = "ready"
    /\ call' = [fn |-> "frequency_monobit"]
    /\ outcome' = frequency_monobit_perform_test(bit_string)
    /\ pc' = "done"
    /\ UNCHANGED <<bit_string, rk, template_file, invocation>>

FrequencyBlock ==
    /\ pc = "ready"
    /\ \E m \in {x \in BlockSizes(Len(bit_string)) : x >= 0} :
        /\ call' = [fn |-> "frequency_block", block_size |-> m]
        /\ outcome' = frequency_block_perform_test(bit_string, m)
    /\ pc' = "done"
    /\ UNCHANGED <<bit_string, rk, template_file, invocation>>

Runs ==
    /\ pc = "ready"
    /\ \E tie_rejects \in BOOLEAN :
        /\ call' = [fn |-> "runs"]
        /\ outcome' = runs_perform_test(bit_string, tie_rejects)
    /\ pc' = "done"
    /\ UNCHANGED <<bit_string, rk, template_file, invocation>>

EvaluateRequirement ==
    /\ pc = "ready"
    /\ \E length \in RequirementLengths, tie_rejects \in BOOLEAN :
        \E ones \in RequirementOnes(length) :
            /\ call' = [fn |-> "evaluate_requirement", length |-> length,
                        ones |-> ones]
            /\ outcome' = evaluate_requirement(length, ones, tie_rejects)
    /\ pc' = "done"
    /\ UNCHANGED <<bit_string, rk, template_file, invocation>>

LongestRun ==
    /\ pc = "ready"
    /\ call' = [fn |-> "longest_run"]
    /\ outcome' = longest_run_perform_test(bit_string)
    /\ pc' = "done"
    /\ UNCHANGED <<bit_string, rk, template_file, invocation>>

CalculateViValues ==
    /\ pc = "ready"
    /\ \E config \in RegimeConfigs :
        \E run_counts \in RunCountsOf(config) :
            /\ call' = [fn |-> "calculate_vi_values", config |-> config,
                        run_counts |-> run_counts]
            /\ outcome' = [kind |-> "Ok",
                           value |-> calculate_vi_values(run_counts,
                                                         config.thresholds)]
    /\ pc' = "done"
    /\ UNCHANGED <<bit_string, rk, template_file, invocation>>

GetLongestRunConfig ==
    /\ pc = "ready"
    /\ \E length \in ConfigLengths \cup {Len(bit_string)} :
        /\ call' = [fn |-> "get_longest_run_config", length |-> length]
        /\ outcome' = get_longest_run_config(length)
    /\ pc' = "done"
    /\ UNCHANGED <<bit_string, rk, template_file, invocation>>

DFTSpectral ==
    /\ pc = "ready"
    /\ \E n_1 \in PeakCounts(Len(bit_string)) :
        /\ call' = [fn |-> "dft_spectral"]
        /\ outcome' = dft_spectral_perform_test(bit_string, n_1)
    /\ pc' = "done"
    /\ UNCHANGED <<bit_string, rk, template_file, invocation>>

CumulativeSums ==
    /\ pc = "ready"
    /\ \E mode \in Modes :
        /\ call' = [fn |-> "cumulative_sums", mode |-> mode]
        /\ outcome' = cumulative_sums_perform_test(bit_string, mode)
    /\ pc' = "done"
    /\ UNCHANGED <<bit_string, rk, template_file, invocation>>

\* the limits for the length of the string and any excursion a string of
\* that length can have
CusumLimits ==
    /\ pc = "ready"
    /\ Len(bit_string) \in 1..MaxScanLen
    /\ IsBinary(bit_string)
    /\ \E z \in 1..Len(bit_string) :
        /\ call' = [fn |-> "cusum_limits", length |-> Len(bit_string),
                    max_sum_z |-> z]
        /\ outcome' = [kind |-> "Ok",
                       value |-> cusum_limits(Len(bit_string), z)]
    /\ pc' = "done"
    /\ UNCHANGED <<bit_string, rk, template_file, invocation>>

BinaryMatrixRank ==
    /\ pc = "ready"
    /\ \E m \in 0..MaxDim, q \in 0..MaxDim :
        /\ call' = [fn |-> "binary_matrix_rank", matrix_rows_m |-> m,
                    matrix_columns_q |-> q]
        /\ outcome' = binary_matrix_rank_perform_test(bit_string, m, q)
    /\ pc' = "done"
    /\ UNCHANGED <<bit_string, rk, template_file, invocation>>

NonOverlappingTemplate ==
    /\ pc = "ready"
    /\ Len(bit_string) <= MaxScanLen
    /\ \E m \in TemplateLens, n \in NumbersOfBlocks,
          available \in BOOLEAN, overflow_checks \in BOOLEAN :
        /\ call' = [fn |-> "non_overlapping_template", template_len |-> m,
                    number_of_blocks |-> n]
        /\ outcome' = non_overlapping_template_perform_test(
                          bit_string, m, n, available, overflow_checks)
    /\ pc' = "done"
    /\ UNCHANGED <<bit_string, rk, template_file, invocation>>

\* the find loop of perform_test on the whole string as one block
CountTemplate ==
    /\ pc = "ready"
    /\ Len(bit_string) \in 1..MaxLen
    /\ IsBinary(bit_string)
    /\ \E template \in ScanTemplates :
        /\ call' = [fn |-> "count_template", template |-> template]
        /\ outcome' = [kind |-> "Ok",
                       value |-> count_template(bit_string, 1,
                                                Len(bit_string), template)]
    /\ pc' = "done"
    /\ UNCHANGED <<bit_string, rk, template_file, invocation>>

Next ==
    \/ Validate
    \/ FrequencyMonobit
    \/ FrequencyBlock
    \/ Runs
    \/ EvaluateRequirement
    \/ LongestRun
    \/ GetLongestRunConfig
    \/ CalculateViValues
    \/ BinaryMatrixRank
    \/ DFTSpectral
    \/ NonOverlappingTemplate
    \/ CountTemplate
    \/ CumulativeSums
    \/ CusumLimits

Spec == Init /\ [][Next]_vars

(***************************************************************************)
(* compute_rank, one iteration of its while loop at a time, on the matrix  *)
(* construct_matrices builds from rows * columns bits.                     *)
(***************************************************************************)
\* the matrix compute_rank was called on
RankInput ==
    construct_matrices(bit_string, call.rows, call.columns).value[1]

InitRank ==
    /\ \E rows \in 1..MaxRankDim, columns \in 1..MaxRankDim :
        /\ bit_string \in [1..(rows * columns) -> Bits]
        /\ call = [fn |-> "compute_rank", rows |-> rows, columns |-> columns]
        /\ rk = [pc |-> "loop",
                 st |-> RankStart(construct_matrices(bit_string, rows,
                                                     columns).value[1])]
    /\ outcome = NoOutcome
    /\ pc = "ready"
    /\ template_file = NoTemplateFile
    /\ invocation = NoInvocations

\* the loop body found the column zero at and below row
RankSkipColumn ==
    /\ rk.pc = "loop"
    /\ rank_loop_condition(rk.st)
    /\ rank_step(rk.st).rank = rk.st.rank
    /\ rk' = [rk EXCEPT !.st = rank_step(rk.st)]
    /\ UNCHANGED <<bit_string, call, outcome, pc, template_file, invocation>>

\* the loop body found a pivot, swapped it up and eliminated below it
RankEliminate ==
    /\ rk.pc = "loop"
    /\ rank_loop_condition(rk.st)
    /\ rank_step(rk.st).rank # rk.st.rank
    /\ rk' = [rk EXCEPT !.st = rank_step(rk.st)]
    /\ UNCHANGED <<bit_string, call, outcome, pc, template_file, invocation>>

RankReturn ==
    /\ rk.pc = "loop"
    /\ ~rank_loop_condition(rk.st)
    /\ rk' = [rk EXCEPT !.pc = "returned"]
    /\ outcome' = [kind |-> "Ok", value |-> rk.st.rank]
    /\ pc' = "done"
    /\ UNCHANGED <<bit_string, call, template_file, invocation>>

NextRank ==
    \/ RankSkipColumn
    \/ RankEliminate
    \/ RankReturn

SpecRank == InitRank /\ [][NextRank]_vars

(***************************************************************************)
(* The rank of an integer matrix over the rationals, by elimination that   *)
(* divides nothing: row i becomes pivot * row i - matrix[i][col] * pivot   *)
(* row.                                                                    *)
(***************************************************************************)
ExactStep(st) ==
    LET nz == {i \in (st.row + 1)..Len(st.matrix) : st.matrix[i][st.col + 1] # 0}
    IN  IF nz = {} THEN [st EXCEPT !.col = st.col + 1]
        ELSE LET p == CHOOSE i \in nz : \A k \in nz : i <= k
                 m == swap_rows(st.matrix, st.row + 1, p)
                 r == st.row + 1
                 c == st.col + 1
             IN  [matrix |-> [i \in DOMAIN m |->
                                IF i <= r THEN m[i]
                                ELSE [j \in DOMAIN m[i] |->
                                        m[r][c] * m[i][j] - m[i][c] * m[r][j]]],
                  row |-> st.row + 1,
                  col |-> st.col + 1,
                  rank |-> st.rank + 1]

RECURSIVE ExactLoop(_)
ExactLoop(st) ==
    IF rank_loop_condition(st) THEN ExactLoop(ExactStep(st)) ELSE st

TrueRank(matrix) == ExactLoop(RankStart(matrix)).rank

(***************************************************************************)
(* The properties.                                                         *)
(***************************************************************************)
Engines ==
    {"frequency_monobit", "frequency_block", "runs", "longest_run",
     "binary_matrix_rank", "dft_spectral", "non_overlapping_template",
     "cumulative_sums"}

\* C1: evaluate_bit_string returns Err if and only if the sequence is empty
\* or holds a symbol other than '0' and '1'; otherwise it returns Ok(length),
\* also when the length is below the recommended size.
C1_ValidatorErrIffInvalid ==
    call.fn = "evaluate_bit_string" =>
        /\ (outcome.kind = "Err")
             <=> (Len(bit_string) = 0
                    \/ \E i \in 1..Len(bit_string) : bit_string[i] \notin Bits)
        /\ outcome.kind # "Err"
             => (outcome.kind = "Ok" /\ outcome.value = Len(bit_string))

\* a sequence shorter than the recommended size is accepted
C1_Witness ==
    /\ call.fn = "evaluate_bit_string"
    /\ outcome.kind = "Ok"
    /\ Len(bit_string) < call.recommended_size
    /\ outcome.value = Len(bit_string)

\* C2: each of the eight engines calls the validator first: on an empty or
\* non-binary sequence it returns Err whatever its other parameters are, and
\* nothing but the validator has run.
C2_ValidatorRunsFirst ==
    (call.fn \in Engines /\ ~IsValid(bit_string)) =>
        /\ outcome.kind = "Err"
        /\ outcome.err = "invalid_input"
        /\ outcome.stages = <<"evaluate_bit_string">>

\* an invalid sequence with matrix dimensions that would panic later on
C2_Witness ==
    /\ call.fn = "binary_matrix_rank"
    /\ call.matrix_rows_m = 0
    /\ ~IsValid(bit_string)
    /\ outcome.kind = "Err"

\* C3: the p-value an engine returns lies in [0, 1] (stated for the engines
\* whose p-value the model evaluates, which leaves Cumulative Sums out).
C3_PValueInUnitInterval ==
    (call.fn \in Engines /\ outcome.kind = "Ok" /\ outcome.p_value # "series")
        => InUnitInterval(outcome.p_value)

\* C4: compute_rank returns the rank over the rationals of every 0/1 matrix.
C4_ComputeRankIsTrueRank ==
    rk.pc = "returned" => outcome.value = TrueRank(RankInput)

\* C5: on a valid sequence, Binary Matrix Rank with M = 0 or Q = 0 and
\* Non-overlapping Template Matching with N = 0 return Err; neither panics.
C5_ParameterViolationsReturnErr ==
    /\ (call.fn = "binary_matrix_rank" /\ IsValid(bit_string)
           /\ (call.matrix_rows_m = 0 \/ call.matrix_columns_q = 0))
         => outcome.kind = "Err"
    /\ (call.fn = "non_overlapping_template" /\ IsValid(bit_string)
           /\ call.number_of_blocks = 0)
         => outcome.kind = "Err"

\* C6: on a valid sequence of length n, Frequency within a Block returns Err
\* exactly when the block size M violates n / 100 < M < n (integer division)
\* or n / M >= 100, and otherwise a p-value computed over n / M blocks.
C6_FrequencyBlockErrExactly ==
    (call.fn = "frequency_block" /\ IsValid(bit_string)) =>
        LET n == Len(bit_string)
            M == call.block_size
            rejected == ~(n \div 100 < M /\ M < n) \/ (n \div M >= 100)
        IN  /\ rejected <=> outcome.kind = "Err"
            /\ ~rejected =>
                 /\ outcome.kind = "Ok"
                 /\ outcome.number_of_blocks = n \div M
                 /\ Len(outcome.pi_i) = n \div M
                 /\ InUnitInterval(outcome.p_value)

\* a long sequence with the smallest block size that is accepted
C6_Witness ==
    /\ call.fn = "frequency_block"
    /\ Len(bit_string) >= 100
    /\ call.block_size = Len(bit_string) \div 100 + 1
    /\ outcome.kind = "Ok"
    /\ outcome.number_of_blocks = Len(bit_string) \div call.block_size

\* C7: Non-overlapping Template Matching returns Err whenever m is outside
\* [2, 21], or N > 100, or M = n / N does not exceed n / 100; when none of
\* these holds and N >= 1, a valid sequence that is not uniform passes the
\* parameter check with M = n / N.
C7_TemplateParameterChecks ==
    call.fn = "non_overlapping_template" =>
        LET n == Len(bit_string)
            m == call.template_len
            N == call.number_of_blocks
            rejected == \/ m < 2
                        \/ m > 21
                        \/ N > 100
                        \/ (N >= 1 /\ n \div N <= n \div 100)
        IN  /\ rejected => outcome.kind = "Err"
            /\ (rejected /\ IsValid(bit_string) /\ ~IsUniform(bit_string))
                 => outcome.err \in {"template_len", "number_of_blocks",
                                     "block_size"}
            /\ (~rejected /\ N >= 1 /\ IsValid(bit_string)
                  /\ ~IsUniform(bit_string))
                 => /\ Len(outcome.stages) > 3
                    /\ outcome.kind = "Ok" => outcome.block_size = n \div N

\* 200 bits in 3 blocks of 66, searched for the templates of length 3
C7_Witness ==
    /\ call.fn = "non_overlapping_template"
    /\ Len(bit_string) = 200
    /\ call.number_of_blocks = 3
    /\ call.template_len = 3
    /\ outcome.kind = "Ok"
    /\ outcome.block_size = 66

\* C8: Non-overlapping Template Matching rejects a valid sequence of only
\* zeros or only ones with Err for every (m, N), before the parameters are
\* checked and before the templates are loaded.
C8_UniformRejectedUpFront ==
    (call.fn = "non_overlapping_template" /\ IsValid(bit_string)
        /\ (CountOf(bit_string, "0") = 0 \/ CountOf(bit_string, "1") = 0)) =>
        /\ outcome.kind = "Err"
        /\ outcome.err = "uniform"
        /\ outcome.stages = <<"evaluate_bit_string", "uniform">>

\* all ones, with a number of blocks that would divide by zero
C8_Witness ==
    /\ call.fn = "non_overlapping_template"
    /\ Len(bit_string) >= 100
    /\ CountOf(bit_string, "0") = 0
    /\ IsValid(bit_string)
    /\ call.number_of_blocks = 0
    /\ call.template_len = 2
    /\ outcome.kind = "Err"

\* C9: Longest Run of Ones returns Err for every valid sequence shorter than
\* 128 and a p-value for every valid sequence of length 128 or more.
C9_LongestRunMinLength ==
    (call.fn = "longest_run" /\ IsValid(bit_string)) =>
        IF Len(bit_string) < 128
        THEN outcome.kind = "Err"
        ELSE outcome.kind = "Ok" /\ InUnitInterval(outcome.p_value)

\* 127 bits pass the validator and are rejected by the length check
C9_Witness ==
    /\ call.fn = "longest_run"
    /\ IsValid(bit_string)
    /\ Len(bit_string) = 127
    /\ outcome.kind = "Err"
    /\ outcome.err = "min_length"

\* C10: Frequency (Monobit): the partial sum is #ones - #zeros, the statistic
\* is its absolute value, and a balanced sequence gives S_obs = 0 and a
\* p-value of exactly 1.0.
C10_MonobitPartialSum ==
    (call.fn = "frequency_monobit" /\ IsValid(bit_string)) =>
        LET diff == CountOf(bit_string, "1") - CountOf(bit_string, "0") IN
        /\ outcome.kind = "Ok"
        /\ outcome.partial_sum = diff
        /\ outcome.statistic = (IF diff < 0 THEN -diff ELSE diff)
        /\ diff = 0 => (outcome.observed = "zero" /\ outcome.p_value = "one")

\* a balanced sequence of 200 bits
C10_Witness ==
    /\ call.fn = "frequency_monobit"
    /\ Len(bit_string) = 200
    /\ CountOf(bit_string, "1") = 100
    /\ CountOf(bit_string, "0") = 100
    /\ outcome.partial_sum = 0
    /\ outcome.p_value = "one"

\* C11: Frequency within a Block: chi_square is 0 exactly when every one of
\* the N blocks holds exactly M / 2 ones, and then the p-value is 1.0 and the
\* incomplete gamma function is not called.
C11_ZeroChiSquareGivesOne ==
    (call.fn = "frequency_block" /\ IsValid(bit_string)
        /\ outcome.kind # "Err") =>
        LET M == call.block_size
            N == Len(bit_string) \div M
            ones(b) == Cardinality({i \in ((b - 1) * M + 1)..(b * M) :
                                       bit_string[i] = "1"})
            half == \A b \in 1..N : 2 * ones(b) = M
            called == \E k \in DOMAIN outcome.stages :
                         outcome.stages[k] = "gamma_ur"
        IN  /\ outcome.kind = "Ok"
            /\ (outcome.chi_square.num = 0) <=> half
            /\ half => (outcome.p_value = "one" /\ ~called)
            /\ ~half => called

\* 200 alternating bits in two blocks of 100
C11_Witness ==
    /\ call.fn = "frequency_block"
    /\ Len(bit_string) = 200
    /\ call.block_size = 100
    /\ outcome.kind = "Ok"
    /\ outcome.chi_square.num = 0
    /\ outcome.p_value = "one"

\* C12: in Frequency within a Block, Longest Run of Ones, Binary Matrix Rank
\* and Non-overlapping Template Matching the blocks examined cover exactly
\* the first (n / size) * size bits, size being the block size of the
\* engine: only n mod size bits are left out.
C12_BlocksCoverPrefix ==
    LET n == Len(bit_string)
        Covers(blocks, size) == blocks * size = (n \div size) * size
    IN  /\ (call.fn = "frequency_block" /\ outcome.kind = "Ok")
             => Covers(Len(outcome.pi_i), call.block_size)
        /\ (call.fn = "binary_matrix_rank" /\ outcome.kind = "Ok")
             => Covers(Len(outcome.ranks),
                       call.matrix_rows_m * call.matrix_columns_q)
        /\ (call.fn = "longest_run" /\ outcome.kind = "Ok")
             => Covers(Len(outcome.runs), outcome.config.block_size_m)
        /\ (call.fn = "non_overlapping_template" /\ outcome.kind = "Ok")
             => \A k \in DOMAIN outcome.counters :
                    Covers(Len(outcome.counters[k]), outcome.block_size)

\* C13: the configuration of Longest Run of Ones depends on the length
\* alone: [128, 6272) gives (8, 16, (1,4)) and 4 pi values, [6272, 750000)
\* gives (128, 49, (4,9)) and 6, and 750000 or more gives (10000, 75,
\* (10,16)) and 7; 6272 and 750000 belong to the upper regime.
C13_LongestRunRegimes ==
    (call.fn = "get_longest_run_config" /\ call.length >= 128) =>
        LET n == call.length
            Is(c, M, N, low, high, entries, table) ==
                /\ c.block_size_m = M
                /\ c.number_of_blocks = N
                /\ c.thresholds = <<low, high>>
                /\ Len(c.pi_values) = entries
                /\ c.pi_values = table
        IN  /\ outcome.kind = "Ok"
            /\ n < 6272 => Is(outcome.value, 8, 16, 1, 4, 4, MIN_PI_VALUES)
            /\ (6272 <= n /\ n < 750000)
                 => Is(outcome.value, 128, 49, 4, 9, 6, MID_PI_VALUES)
            /\ n >= 750000
                 => Is(outcome.value, 10000, 75, 10, 16, 7, MAX_PI_VALUES)

\* the boundary 750000 is in the upper regime
C13_Witness ==
    /\ call.fn = "get_longest_run_config"
    /\ call.length = 750000
    /\ outcome.kind = "Ok"
    /\ outcome.value.block_size_m = 10000
    /\ outcome.value.number_of_blocks = 75

(***************************************************************************)
(* C14                                                                     *)
(***************************************************************************)
\* the largest |#ones - #zeros| over the non-empty prefixes of s, in order
PrefixExcursion(s, k) == Abs(2 * Cardinality({i \in 1..k : s[i] = "1"}) - k)
MaxExcursion(s) == CHOOSE z \in {PrefixExcursion(s, k) : k \in 1..Len(s)} : \A k \in 1..Len(s) : PrefixExcursion(s, k) <= z

\* C14: Cumulative Sums in backward mode on a valid sequence S returns what
\* forward mode returns on reverse(S): the same maximum excursion z, the
\* same three summation bounds and the same p-value (a function of n, z
\* and the bounds); forward mode walks S in its own order, so z is the
\* largest prefix excursion of S (compared for S of at most MaxScanLen bits).
C14_BackwardIsForwardOnReversed ==
    (pc = "done" /\ call.fn = "cumulative_sums" /\ IsValid(bit_string)) =>
        LET n == Len(bit_string)
            reversed == [i \in 1..n |-> bit_string[n + 1 - i]]
        IN  /\ outcome.kind = "Ok"
            /\ call.mode = "Backward" =>
                  outcome = cumulative_sums_perform_test(reversed, "Forward")
            /\ (call.mode = "Forward" /\ n <= MaxScanLen) =>
                  outcome.max_sum_z = MaxExcursion(bit_string)

\* a backward run on a sequence whose forward run has another excursion
C14_Witness ==
    /\ pc = "done" /\ call.fn = "cumulative_sums" /\ call.mode = "Backward"
    /\ outcome.kind = "Ok"
    /\ outcome.max_sum_z # cumulative_sums_perform_test(bit_string, "Forward").max_sum_z

(***************************************************************************)
(* C15                                                                     *)
(***************************************************************************)
\* C15 (as amended): for every valid sequence S, Cusum backward on the
\* bit-reverse of S is identical to Cusum forward on S: the same maximum
\* excursion z, the same summation bounds and the same p-value.
C15_BackwardOnReversedIsForward ==
    (pc = "done" /\ call.fn = "cumulative_sums" /\ call.mode = "Forward"
        /\ IsValid(bit_string)) =>
        LET n == Len(bit_string)
            reversed == [i \in 1..n |-> bit_string[n + 1 - i]]
        IN  /\ outcome.kind = "Ok"
            /\ cumulative_sums_perform_test(reversed, "Backward") = outcome

\* a forward run on a sequence whose backward run has another excursion
C15_Witness ==
    /\ pc = "done" /\ call.fn = "cumulative_sums" /\ call.mode = "Forward"
    /\ outcome.kind = "Ok"
    /\ outcome.max_sum_z # cumulative_sums_perform_test(bit_string, "Backward").max_sum_z

\* C15 as stated: Cusum backward on the bit-reverse of S has the same
\* maximum excursion z and the same p-value as Cusum backward on S.
C15_RoundTripAsStated ==
    (pc = "done" /\ call.fn = "cumulative_sums" /\ call.mode = "Backward"
        /\ IsValid(bit_string)) =>
        LET n == Len(bit_string)
            reversed == [i \in 1..n |-> bit_string[n + 1 - i]]
            other == cumulative_sums_perform_test(reversed, "Backward")
        IN  /\ other.kind = outcome.kind
            /\ other.max_sum_z = outcome.max_sum_z
            /\ other.p_value = outcome.p_value

C18_NaturalLogThreshold ==
    (pc = "done" /\ call.fn = "dft_spectral" /\ outcome.kind = "Ok") =>
        LET n == Len(bit_string) IN
        /\ outcome.height_threshold_sq
              = [num |-> NIST_LN_OF_LOG_ARG * n, den |-> LogUnit]
        /\ n \in ExactDftLengths =>
              outcome.n_1 = Cardinality({b \in 1..(n \div 2) :
                    below_height_threshold(twice_norm_sqr(bit_string, b - 1),
                                           n, NIST_LN_OF_LOG_ARG)})
        /\ outcome.n_1 \in 0..(n \div 2)

(***************************************************************************)
(* Two concurrent invocations of get_templates with the same template      *)
(* length, starting without the file /tmp/template<m>.  The file system is *)
(* what they share; tar::Archive::unpack creates the file and then writes  *)
(* its contents, here line by line.                                        *)
(***************************************************************************)
Invocations == {1, 2}

\* the template lengths of the concurrent invocations
ConcurrentTemplateLens == {2, 3, 4}

InitTemplates ==
    /\ \E m \in ConcurrentTemplateLens :
        call = [fn |-> "get_templates", template_len |-> m]
    /\ bit_string = <<>>
    /\ outcome = NoOutcome
    /\ pc = "ready"
    /\ rk = RkIdle
    /\ template_file = NoTemplateFile
    /\ invocation = [i \in Invocations |->
                        [pc |-> "exists", written |-> 0, result |-> NoOutcome]]

\* Path::new(&template_file_path).exists(): unpack only when it is not there
TemplateFileExists(i) ==
    /\ invocation[i].pc = "exists"
    /\ invocation' = [invocation EXCEPT
            ![i].pc = IF template_file.exists THEN "open" ELSE "unpack"]
    /\ UNCHANGED <<bit_string, call, outcome, pc, rk, template_file>>

\* untar_archive, first step of archive.unpack(dest): the entry's file is
\* created empty at the path, replacing a file that is there
UnpackCreate(i) ==
    /\ invocation[i].pc = "unpack"
    /\ template_file' = [exists |-> TRUE, lines |-> <<>>, owner |-> i]
    /\ invocation' = [invocation EXCEPT ![i].pc = "write"]
    /\ UNCHANGED <<bit_string, call, outcome, pc, rk>>

\* archive.unpack(dest) copies the next line into the file it created; the
\* path shows it when it still names that file
UnpackWrite(i) ==
    /\ invocation[i].pc = "write"
    /\ invocation[i].written < Len(Catalog(call.template_len))
    /\ template_file' =
            IF template_file.owner = i
            THEN [template_file EXCEPT
                    !.lines = Append(@, Catalog(call.template_len)[invocation[i].written + 1])]
            ELSE template_file
    /\ invocation' = [invocation EXCEPT ![i].written = @ + 1]
    /\ UNCHANGED <<bit_string, call, outcome, pc, rk>>

\* untar_archive returns Ok(()) after the last line
UnpackReturn(i) ==
    /\ invocation[i].pc = "write"
    /\ invocation[i].written = Len(Catalog(call.template_len))
    /\ invocation' = [invocation EXCEPT ![i].pc = "open"]
    /\ UNCHANGED <<bit_string, call, outcome, pc, rk, template_file>>

\* File::open and the loop over reader.lines(): the lines the file has now
ReadTemplates(i) ==
    /\ invocation[i].pc = "open"
    /\ invocation' = [invocation EXCEPT
            ![i].pc = "returned",
            ![i].result = IF template_file.exists
                          THEN [kind |-> "Ok", value |-> template_file.lines]
                          ELSE [kind |-> "Err", err |-> "templates"]]
    /\ UNCHANGED <<bit_string, call, outcome, pc, rk, template_file>>

NextTemplates ==
    \E i \in Invocations :
        \/ TemplateFileExists(i)
        \/ UnpackCreate(i)
        \/ UnpackWrite(i)
        \/ UnpackReturn(i)
        \/ ReadTemplates(i)

SpecTemplates == InitTemplates /\ [][NextTemplates]_vars

(***************************************************************************)
(* C19                                                                     *)
(***************************************************************************)
\* C19: in every interleaving of two concurrent invocations with the same
\* template length, started without the file /tmp/template<m>, each
\* invocation that returns has read the complete catalogue, the list a
\* sequential invocation reads.
C19_ConcurrentReadsComplete ==
    \A i \in DOMAIN invocation :
        invocation[i].pc = "returned" =>
            invocation[i].result = get_templates(call.template_len, TRUE)

(***************************************************************************)
(* C20                                                                     *)
(***************************************************************************)
\* C20: after the merge calculate_vi_values holds exactly the keys
\* low..high of the regime's thresholds, each present even with count 0;
\* the counts sum to the number of blocks N; and in each of the three
\* regimes high - low + 1 is the length of the pi table, so the ascending
\* keys pair one-to-one with the table entries.
C20_ViBuckets ==
    LET RECURSIVE total(_, _)
        total(f, ks) == IF ks = {} THEN 0
                        ELSE LET k == CHOOSE x \in ks : TRUE
                             IN  f[k] + total(f, ks \ {k})
        Buckets(vi, config) ==
            /\ DOMAIN vi = config.thresholds[1]..config.thresholds[2]
            /\ \A k \in DOMAIN vi : vi[k] >= 0
            /\ total(vi, DOMAIN vi) = config.number_of_blocks
            /\ Cardinality(DOMAIN vi) = Len(config.pi_values)
            /\ Len(SortedKeys(DOMAIN vi)) = Len(config.pi_values)
    IN  /\ (pc = "done" /\ call.fn = "calculate_vi_values") =>
                Buckets(outcome.value, call.config)
        /\ (pc = "done" /\ call.fn = "longest_run" /\ outcome.kind = "Ok") =>
                Buckets(outcome.vi_counts, outcome.config)
        /\ \A config \in RegimeConfigs :
                config.thresholds[2] - config.thresholds[1] + 1
                    = Len(config.pi_values)

\* the third regime with all blocks in one bucket: the six others are there
\* with count 0
C20_Witness ==
    /\ pc = "done" /\ call.fn = "calculate_vi_values"
    /\ call.config.thresholds = MAX_THRESHOLDS
    /\ Cardinality({k \in DOMAIN outcome.value : outcome.value[k] = 0}) = 6
    /\ \E k \in DOMAIN outcome.value : outcome.value[k] = MAX_SIZE_N

(***************************************************************************)
(* C21                                                                     *)
(***************************************************************************)
\* C21: whenever compute_rank finds a non-zero pivot in the current column,
\* after the swap and the row subtractions every entry below the pivot in
\* that column is zero.
C21_EliminationClearsColumn ==
    [][RankEliminate =>
        \A i \in (rk'.st.row + 1)..Len(rk'.st.matrix) :
            rk'.st.matrix[i][rk'.st.col] = 0]_vars

(***************************************************************************)
(* C22                                                                     *)
(***************************************************************************)
\* C22: for M, Q >= 1 construct_matrices returns exactly floor(n / (M * Q))
\* matrices of M rows and Q columns; entry (r, c) of matrix k (all counted
\* from 0) is bit k * M * Q + r * Q + c of the sequence; the bits after the
\* last full chunk make no matrix.
C22_RowMajorFullChunks ==
    (pc = "done" /\ call.fn = "binary_matrix_rank" /\ IsValid(bit_string)
        /\ call.matrix_rows_m >= 1 /\ call.matrix_columns_q >= 1) =>
        LET n == Len(bit_string)
            M == call.matrix_rows_m
            Q == call.matrix_columns_q
            matrices == construct_matrices(bit_string, M, Q)
            bit(p) == IF bit_string[p + 1] = "1" THEN 1 ELSE 0
        IN  /\ matrices.kind = "Ok"
            /\ Len(matrices.value) * M * Q <= n
            /\ n < (Len(matrices.value) + 1) * M * Q
            /\ outcome.kind = "Ok" => Len(outcome.ranks) = Len(matrices.value)
            /\ \A k \in 0..(Len(matrices.value) - 1) :
                /\ Len(matrices.value[k + 1]) = M
                /\ \A r \in 0..(M - 1) :
                    /\ Len(matrices.value[k + 1][r + 1]) = Q
                    /\ \A c \in 0..(Q - 1) :
                        matrices.value[k + 1][r + 1][c + 1]
                            = bit(k * M * Q + r * Q + c)

\* 2 x 3 matrices of a sequence that leaves a partial chunk and whose first
\* matrix differs from its transposed fill
C22_Witness ==
    /\ pc = "done" /\ call.fn = "binary_matrix_rank" /\ outcome.kind = "Ok"
    /\ call.matrix_rows_m = 2 /\ call.matrix_columns_q = 3
    /\ outcome.n_matrices >= 1
    /\ Len(bit_string) % 6 # 0
    /\ bit_string[2] # bit_string[3]

(***************************************************************************)
(* C23                                                                     *)
(***************************************************************************)
\* C23: for M >= 1 the three rank classes partition the matrices: F_M counts
\* the matrices of rank M, F_(M-1) those of rank M - 1, the remainder all
\* others; the three counts are >= 0 and add up to the number of matrices
\* N, so N - F_M - F_(M-1) does not underflow.
C23_RankClassesPartition ==
    (pc = "done" /\ call.fn = "binary_matrix_rank" /\ outcome.kind = "Ok"
        /\ call.matrix_rows_m >= 1) =>
        LET M == call.matrix_rows_m
            ranks == outcome.ranks
        IN  /\ outcome.n_matrices = Len(ranks)
            /\ outcome.full_rank_m
                  = Cardinality({k \in DOMAIN ranks : ranks[k] = M})
            /\ outcome.full_rank_m_minus_one
                  = Cardinality({k \in DOMAIN ranks : ranks[k] = M - 1})
            /\ outcome.remaining_ranks
                  = Cardinality({k \in DOMAIN ranks : ranks[k] \notin {M, M - 1}})
            /\ outcome.full_rank_m >= 0
            /\ outcome.full_rank_m_minus_one >= 0
            /\ outcome.remaining_ranks >= 0
            /\ outcome.full_rank_m + outcome.full_rank_m_minus_one
                  + outcome.remaining_ranks = outcome.n_matrices

\* two matrices of two rows, one of rank M - 1 and one in the remainder
C23_Witness ==
    /\ pc = "done" /\ call.fn = "binary_matrix_rank" /\ outcome.kind = "Ok"
    /\ call.matrix_rows_m = 2
    /\ outcome.n_matrices = 2
    /\ outcome.full_rank_m_minus_one = 1
    /\ outcome.remaining_ranks = 1

(***************************************************************************)
(* C24                                                                     *)
(***************************************************************************)
\* C24: for every block and every non-empty template of length m the count
\* of the find loop is the count of the left-to-right scan that moves by m
\* after a match and by one bit after a mismatch; the matches counted do
\* not overlap, so the count is at most floor(M / m).
C24_FindLoopIsReferenceScan ==
    /\ (pc = "done" /\ call.fn = "count_template") =>
        /\ outcome.value
              = ReferenceScan(bit_string, 1, Len(bit_string), call.template)
        /\ outcome.value * Len(call.template) <= Len(bit_string)
    /\ (pc = "done" /\ call.fn = "non_overlapping_template"
            /\ outcome.kind = "Ok") =>
        LET templates == get_templates(call.template_len, TRUE).value
            M == outcome.block_size
        IN  \A k \in DOMAIN outcome.counters :
                \A b \in DOMAIN outcome.counters[k] :
                    /\ outcome.counters[k][b]
                          = ReferenceScan(bit_string, (b - 1) * M + 1, b * M,
                                          templates[k])
                    /\ outcome.counters[k][b] * call.template_len <= M

\* a template that overlaps itself, found twice in a block that holds it at
\* three positions
C24_Witness ==
    /\ pc = "done" /\ call.fn = "count_template"
    /\ call.template = <<"1", "1">>
    /\ bit_string = <<"1", "1", "1", "1">>
    /\ outcome.value = 2

(***************************************************************************)
(* C25                                                                     *)
(***************************************************************************)
\* C25: with n the length and z the maximum excursion, 1 <= z <= n, the
\* bounds are upper = trunc((n/z - 1)/4), lower1 = trunc((-n/z + 1)/4) and
\* lower2 = trunc((-n/z - 3)/4) with truncation toward zero: upper is the
\* largest u with 4 z u <= n - z, lower2 the smallest l with
\* 4 z l >= -n - 3 z; lower1 = -upper and lower2 <= lower1 <= 0 <= upper.
C25_TruncatedLimits ==
    LET Limits(n, z, upper, lower1, lower2) ==
            /\ 4 * z * upper <= n - z
            /\ n - z < 4 * z * (upper + 1)
            /\ 4 * z * lower2 >= - n - 3 * z
            /\ - n - 3 * z > 4 * z * (lower2 - 1)
            /\ lower1 = - upper
            /\ lower2 <= lower1 /\ lower1 <= 0 /\ 0 <= upper
    IN  /\ (pc = "done" /\ call.fn = "cusum_limits") =>
            Limits(call.length, call.max_sum_z, outcome.value.upper_limit,
                   outcome.value.lower_limit_1, outcome.value.lower_limit_2)
        /\ (pc = "done" /\ call.fn = "cumulative_sums" /\ outcome.kind = "Ok") =>
            /\ outcome.max_sum_z \in 1..Len(bit_string)
            /\ Limits(Len(bit_string), outcome.max_sum_z, outcome.upper_limit,
                      outcome.lower_limit_1, outcome.lower_limit_2)
            /\ cusum_limits(Len(bit_string), outcome.max_sum_z)
                  = [upper_limit |-> outcome.upper_limit,
                     lower_limit_1 |-> outcome.lower_limit_1,
                     lower_limit_2 |-> outcome.lower_limit_2]

\* quotients that truncation, rounding and floor take to different values
C25_Witness ==
    /\ pc = "done" /\ call.fn = "cusum_limits"
    /\ call.length = 100 /\ call.max_sum_z = 3
    /\ outcome.value = [upper_limit |-> 8, lower_limit_1 |-> -8,
                        lower_limit_2 |-> -9]

(***************************************************************************)
(* C26                                                                     *)
(***************************************************************************)
\* C26 (as amended): compute_v_n_observed returns 1 plus the number of
\* positions i with bit[i] # bit[i+1], so 1 <= V_n <= n and V_n = 1 for a
\* constant or single-bit sequence; and when V_n * n = 2 * #ones * #zeros
\* with #ones = #zeros the p-value is exactly 1.0.
C26_RunsStatistic ==
    (pc = "done" /\ call.fn = "runs" /\ outcome.kind = "Ok") =>
        LET n == Len(bit_string)
            ones == CountOf(bit_string, "1")
            zeros == CountOf(bit_string, "0")
            V_n == outcome.v_n_observed
        IN  /\ V_n = 1 + Cardinality({i \in 1..(n - 1) :
                                        bit_string[i] # bit_string[i + 1]})
            /\ 1 <= V_n /\ V_n <= n
            /\ (\A i \in 1..n : bit_string[i] = bit_string[1]) => V_n = 1
            /\ (V_n * n = 2 * ones * zeros /\ ones = zeros) =>
                    outcome.p_value = "one"

\* as many ones as zeros in the expected number of runs
C26_Witness ==
    /\ pc = "done" /\ call.fn = "runs" /\ outcome.kind = "Ok"
    /\ bit_string = <<"0", "0", "1", "1">>
    /\ outcome.v_n_observed = 2
    /\ outcome.p_value = "one"

\* C26 as stated: whenever V_n * n = 2 * #ones * #zeros the p-value is
\* exactly 1.0.
C26_ExactlyOneAtExpectedRuns ==
    (pc = "done" /\ call.fn = "runs" /\ outcome.kind = "Ok") =>
        LET n == Len(bit_string)
            ones == CountOf(bit_string, "1")
            zeros == CountOf(bit_string, "0")
        IN  outcome.v_n_observed * n = 2 * ones * zeros =>
                outcome.p_value = "one"

(***************************************************************************)
(* C27                                                                     *)
(***************************************************************************)
RankLoopInvariant(st) ==
    /\ st.rank = st.row
    /\ st.row <= st.col
    /\ st.col <= call.columns
    /\ st.rank <= Min(call.rows, call.columns)

\* C27: in compute_rank every iteration of the loop advances col by exactly
\* one, so there are at most Q iterations; rank = row <= col holds before
\* and after every iteration, and the returned rank is between 0 and
\* min(M, Q).
C27_RankLoopTerminates ==
    [][/\ RankLoopInvariant(rk.st)
       /\ RankLoopInvariant(rk'.st)
       /\ (RankSkipColumn \/ RankEliminate) => rk'.st.col = rk.st.col + 1
       /\ RankReturn => /\ outcome'.value = rk.st.rank
                        /\ 0 <= outcome'.value
                        /\ outcome'.value <= Min(call.rows, call.columns)]_vars

\* a 3 x 4 matrix returned with rank 2 after a skipped column
C27_Witness ==
    /\ rk.pc = "returned"
    /\ call.rows = 3 /\ call.columns = 4
    /\ outcome.kind = "Ok" /\ outcome.value = 2
    /\ rk.st.row = 2 /\ rk.st.col = 4

(***************************************************************************)
(* C28                                                                     *)
(***************************************************************************)
\* C28: whenever evaluate_test_params accepts (n, m, N), the block size
\* M = n div N is at least the template length m, so M - m + 1 is a positive
\* count that neither wraps around nor overflows.
C28_BlockHoldsTemplate ==
    (/\ pc = "done"
     /\ call.fn = "non_overlapping_template"
     /\ evaluate_bit_string(bit_string, RECOMMENDED_SIZE).kind = "Ok"
     /\ ~IsUniform(bit_string)) =>
        LET bs == evaluate_test_params(Len(bit_string), call.template_len,
                                       call.number_of_blocks)
        IN  bs.kind = "Ok" =>
                /\ bs.value >= call.template_len
                /\ outcome.kind # "Panic"
                /\ outcome.kind = "Ok" =>
                        /\ outcome.mean.kind = "exact"
                        /\ outcome.mean.num > 0

(***************************************************************************)
(* C30                                                                     *)
(***************************************************************************)
\* C30: whenever the block size passes n div 100 < M < n, the number of
\* blocks N = n div M is between 1 and 99 and N * M <= n: evaluate_block_size
\* never returns the error of too many blocks, and compute_pi_i never
\* slices past the end of the sequence.
C30_BlockCountBelowLimit ==
    (/\ pc = "done"
     /\ call.fn = "frequency_block"
     /\ evaluate_bit_string(bit_string, RECOMMENDED_SIZE).kind = "Ok") =>
        LET n == Len(bit_string)
            M == call.block_size
            nb == evaluate_block_size(n, M)
        IN  /\ nb.kind = "Err" => nb.err = "block_size"
            /\ outcome.kind = "Err" => outcome.err = "block_size"
            /\ (n \div RECOMMENDED_SIZE < M /\ M < n) =>
                    /\ nb.kind = "Ok"
                    /\ nb.value = n \div M
                    /\ 1 <= nb.value /\ nb.value <= RECOMMENDED_SIZE - 1
                    /\ nb.value * M <= n
                    /\ ~(outcome.kind = "Panic" /\ outcome.err = "slice")
                    /\ \E k \in DOMAIN outcome.stages :
                            outcome.stages[k] = "compute_pi_i"

\* the smallest accepted block size of a long sequence: 99 blocks
C30_Witness ==
    /\ pc = "done"
    /\ call.fn = "frequency_block"
    /\ Len(bit_string) = MID_LENGTH
    /\ call.block_size = MID_LENGTH \div RECOMMENDED_SIZE + 1
    /\ outcome.kind = "Ok"
    /\ outcome.number_of_blocks = RECOMMENDED_SIZE - 1

(***************************************************************************)
(* C29                                                                     *)
(***************************************************************************)
\* every 0 of s turned into a 1 and every 1 into a 0
BitwiseComplement(s) == [i \in 1..Len(s) |-> IF s[i] = "1" THEN "0" ELSE "1"]

\* C29: for every non-empty binary sequence of n bits and both modes the
\* maximum excursion z satisfies 1 <= z <= n, so the divisor z of the
\* summation bounds is never zero; and z is the same for the sequence and
\* for its bitwise complement.
C29_ExcursionRange ==
    (pc = "done" /\ call.fn = "cumulative_sums" /\ IsValid(bit_string)) =>
        /\ outcome.kind = "Ok"
        /\ 1 <= outcome.max_sum_z
        /\ outcome.max_sum_z <= Len(bit_string)
        /\ outcome.max_sum_z =
             cumulative_sums_perform_test(BitwiseComplement(bit_string),
                                          call.mode).max_sum_z

\* a backward run with an excursion strictly between 1 and n
C29_Witness ==
    /\ pc = "done" /\ call.fn = "cumulative_sums" /\ call.mode = "Backward"
    /\ bit_string = <<"0", "0", "1", "0">>
    /\ outcome.kind = "Ok"
    /\ outcome.max_sum_z = 2

====
